---- MODULE Spec2Model ----
(***************************************************************************)
(* A model of the woom workflow engine: the task tree (woom/tasks.py), the *)
(* cycle and ensemble generators (woom/iters.py), the job status kinds     *)
(* (woom/job.py) and the control loop Workflow.run (woom/workflow.py).     *)
(***************************************************************************)
EXTENDS Integers, Sequences, FiniteSets, TLC

VARIABLES
    \* ---- Workflow.run (woom/workflow.py) ----
    config,           \* the validated configuration and the run() arguments
    disk0,            \* the submission directories as they were when run() was called
    disk,             \* the submission directories: slot -> directory content
    pc,               \* position of run() in its nested loops
    stage_i, cycle_i, sequence_i, group_i, task_i, member_i,   \* loop indices
    stage_depend, sequence_depend, task_depend,                \* run() locals
    stage_jobs, sequence_jobs, task_jobs,                      \* run() locals
    status,           \* run() local: result of get_task_status
    queried,          \* log: the status queries, in order
    cleaned,          \* log: the clean_task calls, in order
    calls,            \* log: the submissions, in order; job n is calls[n]
    raised,           \* the exception that ended run(), or "none"
    \* ---- pure functions applied to drawn inputs ----
    fn_in,            \* the input drawn by Init
    fn_out,           \* NotCalled, or the result r as <<r>>
    \* ---- a Job and its record (woom/job.py) ----
    job,              \* the Job object in memory, None before it is created
    record,           \* the content of the job's JSON file, None without file
    alive,            \* the ids of the processes that exist
    exit_code,        \* the exit code of the job's process once it ended
    loaded,           \* the outcome of the last Job.load, None before
    job_op,           \* the last operation on the job that returned, None before
    dependent,        \* the job submitted with the first one as dependency
    \* ---- two run() calls on the same submission directory ----
    race_cfg,         \* the scheduler and the update flag of the two runs
    race_dir,         \* the submission directory of the slot both runs are at
    race_pc,          \* runner -> where it is with the slot
    race_status,      \* runner -> the status it got for the slot, "unset" before
    race_json,        \* the runner whose job job.json describes, 0 for none
    race_log,         \* the queries and the submissions, in order
    \* ---- the status and kill commands on the slots of a workflow ----
    ops_wf,           \* the workflow of the command: its scheduler and its slots, in order
    ops_disk,         \* the submission directories: slot -> directory content
    ops_pids,         \* the ids of the jobs that run
    member_jobid,     \* JobStatus member -> its jobid attribute, None when unset
    held,             \* the first status returned with a job id, as the caller got it
    returned,         \* the last status query: slot, kind, job id, probed or not
    kill_op           \* the last kill(): arguments, outcome, the jobs before

runvars == <<config, disk0, disk, pc, stage_i, cycle_i, sequence_i, group_i, task_i,
             member_i, stage_depend, sequence_depend, task_depend, stage_jobs,
             sequence_jobs, task_jobs, status, queried, cleaned, calls, raised>>
fnvars == <<fn_in, fn_out>>
jobvars == <<job, record, alive, exit_code, loaded, job_op, dependent>>
racevars == <<race_cfg, race_dir, race_pc, race_status, race_json, race_log>>
opsvars == <<ops_wf, ops_disk, ops_pids, member_jobid, held, returned, kill_op>>
restvars == <<racevars, opsvars>>
vars == <<runvars, fnvars, jobvars, restvars>>

\* The result of a function that has not been called yet; a result r is <<r>>.
NotCalled == <<>>

\* Python's None for an optional value; a value v that is given is <<v>>.
None == <<>>
Some(v) == <<v>>
Val(o) == o[1]

\* ---------------------------------------------------------------- bounds

\* Largest number of cycles of the "cycles" stage.
MaxCycles == 2
\* Largest number of slots that hold files of an earlier run when run() starts.
MaxStale == 1
\* Largest number of tokens in the stages of a task tree.
MaxTokens == 3
\* Latest end date given to gen_cycles (dates are whole numbers of time units).
MaxDate == 3
\* Largest frequency given to gen_cycles.
MaxFreq == 2
\* Largest ensemble size given to gen_ensemble.
MaxMembers == 10
\* Largest member id that a list of skipped ids can name.
MaxSkip == 7

\* ------------------------------------------------------- generic helpers

InSeq(x, s) == \E i \in 1..Len(s) : s[i] = x

Range(s) == {s[i] : i \in 1..Len(s)}

RECURSIVE Flatten(_)
Flatten(ss) == IF Len(ss) = 0 THEN <<>> ELSE Head(ss) \o Flatten(Tail(ss))

\* ------------------------------------------------- woom/job.py: JobStatus

\* The members of the JobStatus enumeration and their values.
JobStatus ==
    [UNKOWN |-> -1, FINISHED |-> 0, PENDING |-> 1, RUNNING |-> 2,
     INQUEUE |-> 3, EXITING |-> 4, COMPLETING |-> 5]

\* The members workflow.py names (JobStatus["NOTSUBMITTED"], ["FAILED"],
\* ["ERROR"], ["SUCCESS"]) that the enumeration of job.py does not define.
MissingKinds == {"NOTSUBMITTED", "FAILED", "ERROR", "SUCCESS"}

StatusKinds == DOMAIN JobStatus \cup MissingKinds

\* status.is_running(): an in-progress status has a positive value; the kinds
\* workflow.py builds by name are terminal ones.
is_running(k) == k \in DOMAIN JobStatus /\ JobStatus[k] > 0

\* status.is_unknown(): the value is zero.
is_unknown(k) == k \in DOMAIN JobStatus /\ JobStatus[k] = 0

\* status.is_not_running(): the value is negative.
is_not_running(k) == k \in MissingKinds \/ (k \in DOMAIN JobStatus /\ JobStatus[k] < 0)

\* Python values that `is` compares: a str and an enumeration member are
\* objects of different types, and never the same object.
PyStr(s) == [type |-> "str", v |-> s]
PyMember(k) == [type |-> "JobStatus", v |-> k]
PyIs(a, b) == a = b

\* ------------------------------------------- woom/tasks.py: TaskTree.to_dict

\* tasks[i] of to_dict: a token naming a group is replaced by the group's
\* tasks, any other token is a single element group.
ExpandToken(token, groups) ==
    IF token \in DOMAIN groups THEN groups[token] ELSE <<token>>

ExpandLine(tasks_line, groups) ==
    [i \in 1..Len(tasks_line) |-> ExpandToken(tasks_line[i], groups)]

\* The unicity check: tasks are appended to all_tasks in expansion order, and
\* the first one found there already raises TaskError.
\* A variant of the unicity check that only remembers the last task seen.
CheckUnicityLast(flat, all_tasks) ==
    \E i \in 1..(Len(flat) - 1) : flat[i] = flat[i + 1]

RECURSIVE CheckUnicity(_, _)
CheckUnicity(flat, all_tasks) ==
    IF Len(flat) = 0 THEN FALSE
    ELSE IF InSeq(Head(flat), all_tasks) THEN TRUE
    ELSE CheckUnicity(Tail(flat), Append(all_tasks, Head(flat)))

\* stages: <<stage name, sequences>> in declared order, each sequence a list
\* of tokens. The result maps each stage to its sequences of groups.
to_dict(stages, groups) ==
    LET tt == [i \in 1..Len(stages) |->
                 [name |-> stages[i][1],
                  sequences |-> [q \in 1..Len(stages[i][2]) |->
                                   ExpandLine(stages[i][2][q], groups)]]]
        flat == Flatten([i \in 1..Len(stages) |-> Flatten(Flatten(tt[i].sequences))])
    IN  IF CheckUnicity(flat, <<>>)
        THEN [raised |-> "TaskError", tt |-> <<>>]
        ELSE [raised |-> "none", tt |-> tt]

\* ------------------------------------------------ woom/iters.py: gen_cycles

\* pandas.date_range over integer dates.
DateRangePeriods(start, end, periods) ==
    [i \in 1..periods |-> start + ((i - 1) * (end - start)) \div (periods - 1)]

DateRangeFreq(start, end, freq) ==
    IF end < start THEN <<>>
    ELSE [i \in 1..((end - start) \div freq + 1) |-> start + (i - 1) * freq]

DateRangeCount(start, periods, freq) ==
    [i \in 1..periods |-> start + (i - 1) * freq]

\* Cycle.__init__: the flags are False and the links None (0: no cycle).
Cycle(begin_date, end_date) ==
    [begin_date |-> begin_date, end_date |-> end_date,
     is_interval |-> end_date # None,
     is_first |-> FALSE, is_last |-> FALSE, prev |-> 0, next |-> 0]

\* The boundary dates, from the arguments given (None: not given; ncycles 0
\* is falsy like None).
RunDates(begin_date, end_date, freq, ncycles) ==
    IF end_date # None
    THEN IF ncycles # None /\ Val(ncycles) # 0
         THEN DateRangePeriods(begin_date, Val(end_date), Val(ncycles) + 1)
         ELSE IF freq # None
              THEN DateRangeFreq(begin_date, Val(end_date), Val(freq))
              ELSE <<begin_date, Val(end_date)>>
    ELSE IF ncycles # None /\ Val(ncycles) # 0 /\ freq # None
         THEN DateRangeCount(begin_date, Val(ncycles) + 1, Val(freq))
         ELSE <<begin_date>>

\* The flags of the first and last cycle and the prev/next links, as the
\* final loop of gen_cycles sets them (a link is the index in the list).
LinkCycles(cycles) ==
    [i \in 1..Len(cycles) |->
        [cycles[i] EXCEPT !.is_first = (i = 1),
                          !.is_last = (i = Len(cycles)),
                          !.prev = IF i # 1 THEN i - 1 ELSE 0,
                          !.next = IF i # Len(cycles) THEN i + 1 ELSE 0]]

gen_cycles(begin_date, end_date, freq, ncycles, as_intervals) ==
    LET rundates == RunDates(begin_date, end_date, freq, ncycles)
        cycles == IF as_intervals
                  THEN [i \in 1..(Len(rundates) - 1) |->
                          Cycle(rundates[i], Some(rundates[i + 1]))]
                  ELSE [i \in 1..Len(rundates) |-> Cycle(rundates[i], None)]
    IN  IF Len(rundates) = 1
        THEN [raised |-> "none", cycles |-> <<Cycle(rundates[1], None)>>]
        ELSE IF Len(cycles) = 0
             THEN [raised |-> "WoomError", cycles |-> <<>>]
             ELSE [raised |-> "none", cycles |-> LinkCycles(cycles)]

\* ---------------------------------------------- woom/iters.py: gen_ensemble

\* A page of a skip selector: a 1-based id, or a 0-based slice whose stop may
\* be open (None).
PageInt(v) == [type |-> "int", start |-> v, stop |-> None]
PageSlice(start, stop) == [type |-> "slice", start |-> start, stop |-> stop]

\* util.pages2ints: the ids a selector names among n members; an id stands
\* for itself and a slice [start:stop] of range(n) for start+1 .. stop.
PageIds(page, n) ==
    IF page.type = "int" THEN {page.start}
    ELSE LET stop == IF page.stop = None THEN n
                     ELSE IF Val(page.stop) < n THEN Val(page.stop) ELSE n
         IN  {i \in 1..n : page.start < i /\ i <= stop}

pages2ints(pages, n) == UNION {PageIds(pages[i], n) : i \in 1..Len(pages)}

MinLen(iters) ==
    CHOOSE m \in {Len(iters[a]) : a \in DOMAIN iters} :
        \A a \in DOMAIN iters : m <= Len(iters[a])

Member(member_id, nmembers) == [id |-> member_id, nmembers |-> nmembers]

\* The members kept, in the order of range(1, nmembers + 1).
\* A variant of the loop on members that ignores the skipped ids.
KeptMembersNoSkip(member_id, nmembers, skip) ==
    [i \in 1..(nmembers - member_id + 1) |-> Member(member_id + i - 1, nmembers)]

RECURSIVE KeptMembers(_, _, _)
KeptMembers(member_id, nmembers, skip) ==
    IF member_id > nmembers THEN <<>>
    ELSE IF skip # {} /\ member_id \in skip
         THEN KeptMembers(member_id + 1, nmembers, skip)
         ELSE <<Member(member_id, nmembers)>> \o KeptMembers(member_id + 1, nmembers, skip)

\* size: None or <<n>>; skip_pages: a list of pages (empty: no skip); iters:
\* name -> list of values.  The length check of an iterable runs in the loop
\* body of a member that is kept.
gen_ensemble(size, skip_pages, iters) ==
    LET nmembers == IF size = None
                    THEN IF DOMAIN iters # {} THEN MinLen(iters) ELSE 0
                    ELSE Val(size)
        skip == IF Len(skip_pages) = 0 THEN {}
                ELSE pages2ints(skip_pages, nmembers)
        kept == KeptMembers(1, nmembers, skip)
        bad == \E a \in DOMAIN iters : Len(iters[a]) # nmembers
    IN  IF Len(kept) > 0 /\ bad
        THEN [raised |-> "WoomError", members |-> <<>>]
        ELSE [raised |-> "none",
              members |-> [i \in 1..Len(kept) |->
                  [id |-> kept[i].id, nmembers |-> kept[i].nmembers,
                   props |-> [a \in DOMAIN iters |-> iters[a][kept[i].id]]]]]

\* ------------------------------------------ woom/workflow.py: the workflow

\* The stages in the order Workflow.__init__ gives them to the task tree.
StageNames == <<"prolog", "cycles", "epilog">>

\* The workflow declarations the runs are drawn from: for each stage its
\* sequences of tokens, the groups table, the ensemble and the scheduler.
\*   1: prolog A; cycles B; epilog C.
\*   2: prolog P; cycles (A // B) then C; no epilog.
\*   3: prolog C then (A -> B -> E), A run by 2 members; no cycles;
\*      epilog D; the epilog is declared first.
Workflows ==
    { [stages |-> << <<"prolog", << <<"A">> >> >>,
                     <<"cycles", << <<"B">> >> >>,
                     <<"epilog", << <<"C">> >> >> >>,
       groups |-> <<>>, size |-> None, ensemble_tasks |-> {},
       scheduler |-> "background"],
      [stages |-> << <<"prolog", << <<"P">> >> >>,
                     <<"cycles", << <<"A", "B">>, <<"C">> >> >>,
                     <<"epilog", <<>> >> >>,
       groups |-> <<>>, size |-> None, ensemble_tasks |-> {},
       scheduler |-> "slurm"],
      [stages |-> << <<"epilog", << <<"D">> >> >>,
                     <<"prolog", << <<"C">>, <<"G">> >> >>,
                     <<"cycles", <<>> >> >>,
       groups |-> [G |-> <<"A", "B", "E">>], size |-> Some(2), ensemble_tasks |-> {"A"},
       scheduler |-> "pbspro"] }

\* A variant that keeps the stages in the order of their declaration.
ReorderKept(declared) == declared

\* for stage in "prolog", "cycles", "epilog": stages[stage] = ...
Reorder(declared) ==
    [i \in 1..Len(StageNames) |->
        declared[CHOOSE j \in 1..Len(declared) : declared[j][1] = StageNames[i]]]

\* Workflow.__init__: the task tree, the cycles (none when the cycles stage
\* has no sequence) and the ensemble members, computed once.
Workflow(w, ncycles, indep, dry, update) ==
    LET tt == to_dict(Reorder(w.stages), w.groups).tt
    IN  [declared |-> [i \in 1..Len(w.stages) |-> w.stages[i][1]],
         task_tree |-> tt,
         cycles |-> IF Len(tt[2].sequences) > 0
                    THEN gen_cycles(0, None, Some(1), Some(ncycles), TRUE).cycles
                    ELSE <<>>,
         cycles_indep |-> indep,
         members |-> gen_ensemble(w.size, <<>>, <<>>).members,
         ensemble_tasks |-> w.ensemble_tasks,
         scheduler |-> w.scheduler,
         dry |-> dry, update |-> update]

\* A variant where an ensemble task is run by the first member only.
get_task_members_first_only(wf, task_name) ==
    IF Len(wf.members) = 0 THEN <<0>>
    ELSE IF wf.ensemble_tasks # {} /\ task_name \in wf.ensemble_tasks
         THEN <<wf.members[1].id>>
         ELSE <<0>>

\* get_task_members(task_name) or [None]: the member ids, 0 standing for None.
get_task_members(wf, task_name) ==
    IF Len(wf.members) = 0 THEN <<0>>
    ELSE IF wf.ensemble_tasks # {} /\ task_name \in wf.ensemble_tasks
         THEN [i \in 1..Len(wf.members) |-> wf.members[i].id]
         ELSE <<0>>

\* A variant where the "cycles" stage loops on the first cycle only.
StageCyclesFirst(wf, si) ==
    IF wf.task_tree[si].name = "cycles"
    THEN [i \in 1..(IF Len(wf.cycles) > 0 THEN 1 ELSE 0) |-> <<"cycles", i>>]
    ELSE << <<wf.task_tree[si].name, 0>> >>

\* The cycles a stage loops on: the generated cycles for "cycles", the stage
\* itself for the two others.
StageCycles(wf, si) ==
    IF wf.task_tree[si].name = "cycles"
    THEN [i \in 1..Len(wf.cycles) |-> <<"cycles", i>>]
    ELSE << <<wf.task_tree[si].name, 0>> >>

\* Workflow.__iter__: the (task, cycle, member) slots in iteration order.
IterGroup(wf, cycle, group) ==
    Flatten([t \in 1..Len(group) |->
        LET ms == get_task_members(wf, group[t])
        IN  [m \in 1..Len(ms) |-> <<group[t], cycle, ms[m]>>]])

IterCycle(wf, si, cycle) ==
    LET seqs == wf.task_tree[si].sequences
    IN  Flatten([q \in 1..Len(seqs) |->
            Flatten([g \in 1..Len(seqs[q]) |-> IterGroup(wf, cycle, seqs[q][g])])])

IterSlots(wf) ==
    Flatten([si \in 1..Len(wf.task_tree) |->
        IF Len(wf.task_tree[si].sequences) = 0 THEN <<>>
        ELSE LET cs == StageCycles(wf, si)
             IN  Flatten([c \in 1..Len(cs) |-> IterCycle(wf, si, cs[c])])])

Slots(wf) == Range(IterSlots(wf))

\* ------------------------------- the submission directory of a slot on disk

\* The files clean_task removes.
JobExts == {"sh", "err", "out", "json", "status"}

\* A submission directory: whether it exists, the files it holds ("other": a
\* file that is not a job file), whether job.out holds the walltime marker,
\* the exit code in job.status, and what probing the recorded job reports.
NoDir == [dir |-> FALSE, files |-> {}, marker |-> FALSE, code |-> 0, probe |-> "UNKOWN"]

\* What an earlier run may have left in a submission directory, with the
\* statuses the job manager of the workflow can report for the recorded job.
StaleDirs(scheduler) ==
    CASE scheduler = "background" ->
           { [dir |-> TRUE, files |-> {"sh", "out", "err", "json", "status", "other"},
              marker |-> FALSE, code |-> 0, probe |-> "UNKOWN"],
             [dir |-> TRUE, files |-> {"sh", "out", "json", "status"},
              marker |-> FALSE, code |-> 1, probe |-> "RUNNING"],
             [dir |-> TRUE, files |-> {"sh", "out", "err", "json"},
              marker |-> FALSE, code |-> 0, probe |-> "RUNNING"],
             [dir |-> TRUE, files |-> {"sh", "json", "other"},
              marker |-> FALSE, code |-> 0, probe |-> "UNKOWN"],
             [dir |-> TRUE, files |-> {"out", "status", "other"},
              marker |-> FALSE, code |-> 0, probe |-> "UNKOWN"] }
      [] scheduler = "slurm" ->
           { [dir |-> TRUE, files |-> {"sh", "out", "json", "status"},
              marker |-> FALSE, code |-> 0, probe |-> "FINISHED"],
             [dir |-> TRUE, files |-> {"sh", "json"},
              marker |-> FALSE, code |-> 0, probe |-> "PENDING"],
             [dir |-> TRUE, files |-> {"sh", "out", "json"},
              marker |-> FALSE, code |-> 0, probe |-> "COMPLETING"] }
      [] OTHER ->
           { [dir |-> TRUE, files |-> {"sh", "out", "err", "json", "status"},
              marker |-> TRUE, code |-> 0, probe |-> "FINISHED"],
             [dir |-> TRUE, files |-> {"sh", "json"},
              marker |-> FALSE, code |-> 0, probe |-> "INQUEUE"],
             [dir |-> TRUE, files |-> {"sh", "out", "json"},
              marker |-> FALSE, code |-> 0, probe |-> "EXITING"],
             [dir |-> TRUE, files |-> {"sh", "out", "json", "other"},
              marker |-> FALSE, code |-> 0, probe |-> "FINISHED"] }

\* A variant of get_task_status that reads job.status before it looks for
\* the record.
get_task_status_status_first(d) ==
    IF ~d.dir THEN "NOTSUBMITTED"
    ELSE IF "status" \in d.files
         THEN IF d.code # 0 THEN "ERROR" ELSE "SUCCESS"
         ELSE IF "json" \notin d.files THEN "NOTSUBMITTED" ELSE d.probe

\* A variant of get_task_status that asks the job before it reads job.status.
get_task_status_probe_first(d) ==
    IF ~d.dir THEN "NOTSUBMITTED"
    ELSE IF "json" \notin d.files THEN "NOTSUBMITTED"
    ELSE IF "out" \in d.files /\ d.marker THEN "FAILED"
    ELSE IF d.probe \in {"RUNNING", "PENDING"} THEN d.probe
    ELSE IF "status" \in d.files
         THEN IF d.code # 0 THEN "ERROR" ELSE "SUCCESS"
         ELSE d.probe

\* A variant of get_task_status that reads job.status before it looks for the
\* walltime marker in job.out.
get_task_status_code_first(d) ==
    IF ~d.dir THEN "NOTSUBMITTED"
    ELSE IF "json" \notin d.files THEN "NOTSUBMITTED"
    ELSE IF "status" \in d.files
         THEN IF d.code # 0 THEN "ERROR" ELSE "SUCCESS"
         ELSE IF "out" \in d.files /\ d.marker THEN "FAILED"
         ELSE d.probe

\* get_task_status: NOTSUBMITTED without directory or record; FAILED on the
\* walltime marker; SUCCESS or ERROR from the exit code; else job.get_status().
get_task_status(d) ==
    IF ~d.dir THEN "NOTSUBMITTED"
    ELSE IF "json" \notin d.files THEN "NOTSUBMITTED"
    ELSE IF "out" \in d.files /\ d.marker THEN "FAILED"
    ELSE IF "status" \in d.files
         THEN IF d.code # 0 THEN "ERROR" ELSE "SUCCESS"
         ELSE d.probe

\* A variant of clean_task that leaves the record of the job.
clean_task_keeps_record(d, dry) ==
    [d EXCEPT !.files = IF dry THEN @ ELSE @ \ {"sh", "err", "out", "status"}]

\* A variant of clean_task that forgets job.status.
clean_task_keeps_status(d, dry) ==
    [d EXCEPT !.files = IF dry THEN @ ELSE @ \ {"sh", "err", "out", "json"}]

\* clean_task: each job file that exists is removed, unless in dry mode.
clean_task(d, dry) ==
    [d EXCEPT !.files = IF dry THEN @ ELSE @ \ JobExts]

\* submit_task, up to the call of the job manager: the directory and the
\* script are created.
write_script(d) == [d EXCEPT !.dir = TRUE, !.files = @ \cup {"sh"}]

\* ------------------------------------------- woom/job.py: submission args

\* A piece of a word of the command line: a text, or the id of a job as
\* Job.__str__ gives it.
Lit(text) == [lit |-> text, id |-> 0]
JobId(j) == [lit |-> "", id |-> j]

\* The replacement field of a template.
Hole == Lit("{}")

\* sep.join([str(job) for job in depend])
RECURSIVE Join(_, _)
Join(sep, jobs) ==
    IF Len(jobs) = 0 THEN <<>>
    ELSE IF Len(jobs) = 1 THEN <<JobId(jobs[1])>>
    ELSE <<JobId(jobs[1]), Lit(sep)>> \o Join(sep, Tail(jobs))

\* commands["submit"] of the three managers: the command, and per option the
\* words of its template (the templates are split on whitespace, which the
\* values never hold).
commands(scheduler) ==
    CASE scheduler = "slurm" ->
           [command |-> "sbatch",
            options |-> [depend |-> << <<Lit("--dependency=afterok:"), Hole>> >>,
                         script |-> << <<Hole>> >>]]
      [] scheduler = "pbspro" ->
           [command |-> "qsub",
            options |-> [depend |-> << <<Lit("-W")>>, <<Lit("depend=afterok:"), Hole>> >>,
                         script |-> << <<Hole>> >>]]
      [] OTHER ->
           [command |-> "bash",
            options |-> [script |-> << <<Hole>> >>]]

\* fmt.format(ovalue) on one word.
format(word, ovalue) ==
    Flatten([i \in 1..Len(word) |-> IF word[i] = Hole THEN ovalue ELSE <<word[i]>>])

\* get_command_args("submit", **opts): the command, then for each option
\* that the manager knows the words of its formatted template.
get_command_args(scheduler, opts) ==
    LET cmd == commands(scheduler)
    IN  << <<Lit(cmd.command)>> >> \o
        Flatten([i \in 1..Len(opts) |->
            IF opts[i].oname \in DOMAIN cmd.options
            THEN [j \in 1..Len(cmd.options[opts[i].oname]) |->
                     format(cmd.options[opts[i].oname][j], opts[i].ovalue)]
            ELSE <<>>])

\* A variant that joins the ids with commas.
SchedulerDependCommas(depend) == Join(",", depend)

\* _Scheduler_.get_submission_args: opts["depend"] = ":".join(...)
SchedulerDepend(depend) == Join(":", depend)

\* get_submission_args of the manager: only the schedulers turn the
\* dependencies into an option; the script is the last option.
get_submission_args(scheduler, script, depend) ==
    get_command_args(scheduler,
        (IF scheduler # "background" /\ Len(depend) > 0
         THEN << [oname |-> "depend", ovalue |-> SchedulerDepend(depend)] >>
         ELSE <<>>)
        \o << [oname |-> "script", ovalue |-> <<Lit(script)>>] >>)

\* submit_task and JobManager.submit: the directory and the script are
\* created, the background manager opens job.out and job.err, and the job is
\* dumped to job.json.
submit_task(d, scheduler) ==
    [dir |-> TRUE,
     files |-> d.files \cup {"sh", "json"}
                  \cup (IF scheduler = "background" THEN {"out", "err"} ELSE {}),
     marker |-> IF scheduler = "background" THEN FALSE ELSE d.marker,
     code |-> d.code,
     probe |-> "RUNNING"]

\* ------------------------------------------------ woom/workflow.py: run()

\* The variables of the pure-function specifications, when unused.
FnIdle == fn_in = <<>> /\ fn_out = NotCalled

\* The variables of the job specification, when unused.
JobIdle ==
    /\ job = None /\ record = None /\ alive = {} /\ exit_code = None
    /\ loaded = None /\ job_op = None /\ dependent = None

\* The variables of the two concurrent runs, when unused.
RaceIdle ==
    /\ race_cfg = <<>> /\ race_dir = <<>> /\ race_pc = <<>>
    /\ race_status = <<>> /\ race_json = 0 /\ race_log = <<>>

OpsIdle ==
    /\ ops_wf = <<>> /\ ops_disk = <<>> /\ ops_pids = {}
    /\ member_jobid = <<>> /\ held = None /\ returned = None /\ kill_op = None

\* The variables of the specifications of the other operations, when unused.
RestIdle == RaceIdle /\ OpsIdle

\* The local variables of run() before its first statement.
RunLocals ==
    /\ pc = "stage"
    /\ stage_i = 1 /\ cycle_i = 1 /\ sequence_i = 1
    /\ group_i = 1 /\ task_i = 1 /\ member_i = 1
    /\ stage_depend = <<>> /\ sequence_depend = <<>> /\ task_depend = <<>>
    /\ stage_jobs = <<>> /\ sequence_jobs = <<>> /\ task_jobs = <<>>
    /\ status = "unset"
    /\ queried = <<>> /\ cleaned = <<>> /\ calls = <<>>
    /\ raised = "none"

\* A workflow is built (independence of the cycles is only declared when
\* there are cycles), at most MaxStale of its slots hold the files of an
\* earlier run, and run() is called.
Init ==
    /\ \E w \in Workflows, ncycles \in 1..MaxCycles, indep, dry, update \in BOOLEAN :
           /\ config = Workflow(w, ncycles, indep, dry, update)
           /\ Len(config.cycles) = 0 => ~indep
    /\ \E stale \in {S \in SUBSET Slots(config) : Cardinality(S) <= MaxStale} :
           \E old \in [stale -> StaleDirs(config.scheduler)] :
               disk0 = [s \in Slots(config) |-> IF s \in stale THEN old[s] ELSE NoDir]
    /\ disk = disk0
    /\ RunLocals
    /\ FnIdle
    /\ JobIdle
    /\ RestIdle

\* The objects the loops of run() are at.
stage == config.task_tree[stage_i].name
sequences == config.task_tree[stage_i].sequences
cycles == StageCycles(config, stage_i)
cycle == cycles[cycle_i]
groups == sequences[sequence_i]
group == groups[group_i]
task_name == group[task_i]
members == get_task_members(config, task_name)
member == members[member_i]
slot == <<task_name, cycle, member>>

\* A variant where a stage starts from nothing.
StageStartEmpty(stage_dep) == <<>>

\* sequence_depend = stage_depend: a stage starts from what the stages before
\* it left.
StageStart(stage_dep) == stage_dep

\* for stage in self.task_tree: a stage without sequence is skipped.
LoopStage ==
    /\ pc = "stage"
    /\ \/ /\ stage_i > Len(config.task_tree)
          /\ pc' = "done"
          /\ UNCHANGED <<stage_i, cycle_i, stage_jobs, sequence_depend>>
       \/ /\ stage_i <= Len(config.task_tree)
          /\ Len(sequences) = 0
          /\ stage_i' = stage_i + 1
          /\ UNCHANGED <<pc, cycle_i, stage_jobs, sequence_depend>>
       \/ /\ stage_i <= Len(config.task_tree)
          /\ Len(sequences) > 0
          /\ stage_jobs' = <<>>
          /\ sequence_depend' = StageStart(stage_depend)
          /\ cycle_i' = 1
          /\ pc' = "cycle"
          /\ UNCHANGED stage_i
    /\ UNCHANGED <<config, disk0, disk, sequence_i, group_i, task_i, member_i,
                   stage_depend, task_depend, sequence_jobs, task_jobs,
                   status, queried, cleaned, calls, raised, fnvars, jobvars, restvars>>

\* A variant where every cycle starts from the jobs of the previous stage.
CycleDependAlwaysStage(stg, indep, stage_dep, sequence_dep) == stage_dep

\* What a cycle of the "cycles" stage starts from.
CycleDepend(stg, indep, stage_dep, sequence_dep) ==
    IF stg = "cycles" /\ indep THEN stage_dep ELSE sequence_dep

\* for i, cycle in enumerate(cycles): at the end, stage_depend = stage_jobs.
LoopCycle ==
    /\ pc = "cycle"
    /\ \/ /\ cycle_i > Len(cycles)
          /\ stage_depend' = stage_jobs
          /\ stage_i' = stage_i + 1
          /\ pc' = "stage"
          /\ UNCHANGED <<sequence_depend, sequence_i>>
       \/ /\ cycle_i <= Len(cycles)
          /\ sequence_depend' =
                 CycleDepend(stage, config.cycles_indep, stage_depend, sequence_depend)
          /\ sequence_i' = 1
          /\ pc' = "sequence"
          /\ UNCHANGED <<stage_depend, stage_i>>
    /\ UNCHANGED <<config, disk0, disk, cycle_i, group_i, task_i, member_i,
                   task_depend, stage_jobs, sequence_jobs, task_jobs,
                   status, queried, cleaned, calls, raised, fnvars, jobvars, restvars>>

\* A variant where the jobs of every cycle are kept.
CycleJobsAllCycles(stg, indep, stage_jbs, sequence_jbs) == stage_jbs \o sequence_jbs

\* A variant where the jobs of the last cycle replace those of the others.
CycleJobsLastOnly(stg, indep, stage_jbs, sequence_jbs) == sequence_jbs

\* The jobs of the stage once a cycle is over.
CycleJobs(stg, indep, stage_jbs, sequence_jbs) ==
    IF stg = "cycles" /\ indep THEN stage_jbs \o sequence_jbs ELSE sequence_jbs

\* for sequence, groups in self.task_tree[stage].items(): at the end of the
\* cycle its jobs are added to, or replace, the jobs of the stage.
LoopSequence ==
    /\ pc = "sequence"
    /\ \/ /\ sequence_i > Len(sequences)
          /\ stage_jobs' =
                 CycleJobs(stage, config.cycles_indep, stage_jobs, sequence_jobs)
          /\ cycle_i' = cycle_i + 1
          /\ pc' = "cycle"
          /\ UNCHANGED <<sequence_jobs, group_i>>
       \/ /\ sequence_i <= Len(sequences)
          /\ sequence_jobs' = <<>>
          /\ group_i' = 1
          /\ pc' = "group"
          /\ UNCHANGED <<stage_jobs, cycle_i>>
    /\ UNCHANGED <<config, disk0, disk, stage_i, sequence_i, task_i, member_i,
                   stage_depend, sequence_depend, task_depend, task_jobs,
                   status, queried, cleaned, calls, raised, fnvars, jobvars, restvars>>

\* A variant where a group starts from what the group before it left.
GroupDependCarried(sequence_dep, task_dep) == task_dep

\* task_depend = sequence_depend: the first task of a group depends on the
\* last sequence.
GroupDepend(sequence_dep, task_dep) == sequence_dep

\* for group in groups: at the end, sequence_depend = sequence_jobs.
LoopGroup ==
    /\ pc = "group"
    /\ \/ /\ group_i > Len(groups)
          /\ sequence_depend' = sequence_jobs
          /\ sequence_i' = sequence_i + 1
          /\ pc' = "sequence"
          /\ UNCHANGED <<task_depend, task_i>>
       \/ /\ group_i <= Len(groups)
          /\ task_depend' = GroupDepend(sequence_depend, task_depend)
          /\ task_i' = 1
          /\ pc' = "task"
          /\ UNCHANGED <<sequence_depend, sequence_i>>
    /\ UNCHANGED <<config, disk0, disk, stage_i, cycle_i, group_i, member_i,
                   stage_depend, stage_jobs, sequence_jobs, task_jobs,
                   status, queried, cleaned, calls, raised, fnvars, jobvars, restvars>>

\* A variant where the jobs of a group replace those of the groups before it.
GroupJobsLast(sequence_jbs, task_jbs) == task_jbs

\* sequence_jobs.extend(task_jobs): the last jobs of the group are added to
\* the jobs of the sequence.
GroupJobs(sequence_jbs, task_jbs) == sequence_jbs \o task_jbs

\* for task_name in group: at the end, sequence_jobs.extend(task_jobs).
LoopTask ==
    /\ pc = "task"
    /\ \/ /\ task_i > Len(group)
          /\ sequence_jobs' = GroupJobs(sequence_jobs, task_jobs)
          /\ group_i' = group_i + 1
          /\ pc' = "group"
          /\ UNCHANGED <<task_jobs, member_i>>
       \/ /\ task_i <= Len(group)
          /\ task_jobs' = <<>>
          /\ member_i' = 1
          /\ pc' = "member"
          /\ UNCHANGED <<sequence_jobs, group_i>>
    /\ UNCHANGED <<config, disk0, disk, stage_i, cycle_i, sequence_i, task_i,
                   stage_depend, sequence_depend, task_depend, stage_jobs,
                   status, queried, cleaned, calls, raised, fnvars, jobvars, restvars>>

\* A variant where a task also keeps the dependencies of the task before it.
NextTaskDependAdded(task_dep, task_jbs) == task_dep \o task_jbs

\* task_depend = task_jobs: the dependencies for the next task in the group.
NextTaskDepend(task_dep, task_jbs) == task_jbs

\* for member in self.get_task_members(task_name) or [None]: at the end,
\* task_depend = task_jobs.
LoopMember ==
    /\ pc = "member"
    /\ \/ /\ member_i > Len(members)
          /\ task_depend' = NextTaskDepend(task_depend, task_jobs)
          /\ task_i' = task_i + 1
          /\ pc' = "task"
       \/ /\ member_i <= Len(members)
          /\ pc' = "status"
          /\ UNCHANGED <<task_depend, task_i>>
    /\ UNCHANGED <<config, disk0, disk, stage_i, cycle_i, sequence_i, group_i, member_i,
                   stage_depend, sequence_depend, stage_jobs, sequence_jobs, task_jobs,
                   status, queried, cleaned, calls, raised, fnvars, jobvars, restvars>>

\* A variant of SlotStep without the test on a running job.
\* A variant where a slot is cleaned and submitted whatever its status.
SlotStepCleanAlways(st, update) == "clean"

\* A variant where the update mode skips every slot that has a job record.
SlotStepUpdateSkips(st, update) ==
    IF is_running(st) THEN "raise"
    ELSE IF update /\ st # "NOTSUBMITTED" THEN "continue"
    ELSE "clean"

SlotStepNoRaise(st, update) ==
    IF update /\ PyIs(PyStr(st), PyMember("SUCCESS")) THEN "continue" ELSE "clean"

\* What run() does with a slot once its status is known: it raises when the
\* job is running; in update mode it tests  status.name is JobStatus.SUCCESS,
\* a string against a member of the enumeration, to skip the slot; otherwise
\* it goes on to clean and submit.
SlotStep(st, update) ==
    IF is_running(st) THEN "raise"
    ELSE IF update /\ PyIs(PyStr(st), PyMember("SUCCESS")) THEN "continue"
    ELSE "clean"

\* status = self.get_task_status(task_name, cycle, member) and the tests on it.
GetStatus ==
    /\ pc = "status"
    /\ LET st == get_task_status(disk[slot])
           step == SlotStep(st, config.update)
       IN  /\ status' = st
           /\ queried' = Append(queried, [slot |-> slot, status |-> st])
           /\ raised' = IF step = "raise" THEN "WorkFlowError" ELSE raised
           /\ pc' = CASE step = "raise" -> "aborted"
                      [] step = "continue" -> "member"
                      [] OTHER -> "clean"
           /\ member_i' = IF step = "continue" THEN member_i + 1 ELSE member_i
    /\ UNCHANGED <<config, disk0, disk, stage_i, cycle_i, sequence_i, group_i, task_i,
                   stage_depend, sequence_depend, task_depend,
                   stage_jobs, sequence_jobs, task_jobs, cleaned, calls, fnvars, jobvars, restvars>>

\* self.clean_task(task_name, cycle, member)
CleanTask ==
    /\ pc = "clean"
    /\ disk' = [disk EXCEPT ![slot] = clean_task(@, config.dry)]
    /\ cleaned' = Append(cleaned, slot)
    /\ pc' = "submit"
    /\ UNCHANGED <<config, disk0, stage_i, cycle_i, sequence_i, group_i, task_i, member_i,
                   stage_depend, sequence_depend, task_depend,
                   stage_jobs, sequence_jobs, task_jobs, status, queried, calls,
                   raised, fnvars, jobvars, restvars>>

\* A variant where the fake submission writes what the real one writes.
SubmittedAlways(d, dry, scheduler) == submit_task(d, scheduler)

\* The files of a slot after the submission: untouched by submit_task_fake.
Submitted(d, dry, scheduler) ==
    IF dry THEN d ELSE submit_task(d, scheduler)

\* A variant that carries on when the submission returned no job.
SubmissionAbortsNever(dry, got_job) == FALSE

\* if job is None: raise WorkFlowError("Task submission aborted..."), on the
\* real submission branch only.
SubmissionAborts(dry, got_job) == ~dry /\ ~got_job

\* A variant where a submission returns the id that the next job will get.
SubmittedJobAhead(dry, rank) == rank + 1

\* A variant where every fake submission returns the same job id.
SubmittedJobFakeSame(dry, rank) == IF dry THEN 1 ELSE rank

\* The job a submission returns, fake or real, named by the rank of the call.
SubmittedJob(dry, rank) == rank

\* job = self.submit_task_fake(**kwtask) or self.submit_task(**kwtask), then
\* task_jobs.append(job).  A job is named by the rank of its call: the process
\* id, the scheduler's id or the random id of a fake job are all distinct.
\* A real submission may return no job, its script being written already;
\* the run stops there.
SubmitTask ==
    /\ pc = "submit"
    /\ \E got_job \in (IF config.dry THEN {TRUE} ELSE BOOLEAN) :
        /\ calls' = Append(calls,
               [slot |-> slot, depend |-> task_depend, fake |-> config.dry,
                job |-> got_job,
                args |-> IF config.dry THEN <<>>
                         ELSE get_submission_args(config.scheduler, "job.sh", task_depend)])
        /\ disk' = [disk EXCEPT ![slot] =
               IF got_job THEN Submitted(@, config.dry, config.scheduler)
               ELSE write_script(@)]
        /\ IF SubmissionAborts(config.dry, got_job)
           THEN /\ raised' = "WorkFlowError"
                /\ pc' = "aborted"
                /\ UNCHANGED <<task_jobs, member_i>>
           ELSE /\ task_jobs' = Append(task_jobs, SubmittedJob(config.dry, Len(calls) + 1))
                /\ member_i' = member_i + 1
                /\ pc' = "member"
                /\ UNCHANGED raised
    /\ UNCHANGED <<config, disk0, stage_i, cycle_i, sequence_i, group_i, task_i,
                   stage_depend, sequence_depend, task_depend,
                   stage_jobs, sequence_jobs, status, queried, cleaned,
                   fnvars, jobvars, restvars>>

Next ==
    \/ LoopStage
    \/ LoopCycle
    \/ LoopSequence
    \/ LoopGroup
    \/ LoopTask
    \/ LoopMember
    \/ GetStatus
    \/ CleanTask
    \/ SubmitTask

Spec == Init /\ [][Next]_vars

\* ------------------------------------------------------ properties of run()

CycleSequences == config.task_tree[2].sequences

\* The tasks that start a list of sequences: the first task of each group of
\* the first sequence.
FirstTasks(seqs) == {seqs[1][g][1] : g \in 1..Len(seqs[1])}

\* The tasks that end a list of sequences: the last task of each group of the
\* last sequence.
FinalTasks(seqs) ==
    LET last == seqs[Len(seqs)]
    IN  {last[g][Len(last[g])] : g \in 1..Len(last)}

\* The jobs submitted so far for the given tasks at the given cycle.
JobsOf(tasks, cyc) ==
    {j \in 1..Len(calls) : calls[j].slot[1] \in tasks /\ calls[j].slot[2] = cyc}

\* The final jobs of the prolog and of all the cycles.
PrologFinalJobs ==
    IF Len(config.task_tree[1].sequences) = 0 THEN {}
    ELSE JobsOf(FinalTasks(config.task_tree[1].sequences), <<"prolog", 0>>)

AllCyclesFinalJobs ==
    {j \in 1..Len(calls) : /\ calls[j].slot[2][1] = "cycles"
                           /\ calls[j].slot[1] \in FinalTasks(CycleSequences)}

NoRepeat(s) == Len(s) = Cardinality(Range(s))

\* C1: when the cycles are dependent, every submission that starts cycle n+1
\* (a first task of the first sequence) is called with exactly the final jobs
\* of cycle n as dependencies, hence with no job of the prolog.
DependentCyclesChain ==
    ~config.cycles_indep =>
        \A k \in 1..Len(calls) :
            LET s == calls[k].slot
            IN  (s[2][1] = "cycles" /\ s[2][2] > 1 /\ s[1] \in FirstTasks(CycleSequences))
                    => /\ Range(calls[k].depend) =
                              JobsOf(FinalTasks(CycleSequences), <<"cycles", s[2][2] - 1>>)
                       /\ NoRepeat(calls[k].depend)

\* B of cycle 2 was submitted with the job of B of cycle 1 as only dependency.
DependentCyclesChainWitness ==
    /\ ~config.cycles_indep
    /\ \E k \in 1..Len(calls) :
           /\ calls[k].slot = <<"B", <<"cycles", 2>>, 0>>
           /\ Len(calls[k].depend) = 1
           /\ calls[calls[k].depend[1]].slot = <<"B", <<"cycles", 1>>, 0>>

\* C2: when the cycles are independent, every submission that starts a cycle
\* depends on exactly the final jobs of the prolog, and what the epilog
\* receives, and its first submissions depend on, is the union of the final
\* jobs of all the cycles.
IndependentCycles ==
    config.cycles_indep =>
        /\ \A k \in 1..Len(calls) :
               LET s == calls[k].slot
               IN  (s[2][1] = "cycles" /\ s[1] \in FirstTasks(CycleSequences))
                       => Range(calls[k].depend) = PrologFinalJobs
        /\ (pc = "stage" /\ stage_i = 3) => Range(stage_depend) = AllCyclesFinalJobs
        /\ \A k \in 1..Len(calls) :
               LET s == calls[k].slot
               IN  (s[2][1] = "epilog" /\ s[1] \in FirstTasks(config.task_tree[3].sequences))
                       => /\ Range(calls[k].depend) = AllCyclesFinalJobs
                          /\ NoRepeat(calls[k].depend)

\* Two independent cycles ran after the prolog and the epilog was submitted
\* with the jobs of both.
IndependentCyclesWitness ==
    /\ config.cycles_indep
    /\ \E k \in 1..Len(calls) :
           /\ calls[k].slot[2] = <<"cycles", 2>>
           /\ Len(calls[k].depend) = 1
           /\ calls[calls[k].depend[1]].slot[2] = <<"prolog", 0>>
    /\ \E k \in 1..Len(calls) :
           /\ calls[k].slot[2] = <<"epilog", 0>>
           /\ Len(calls[k].depend) >= 2

\* The in-progress statuses.
RunningKinds == {"PENDING", "RUNNING", "INQUEUE", "EXITING", "COMPLETING"}

\* a comes before b in the iteration order of the workflow.
Before(a, b) ==
    LET order == IterSlots(config)
    IN  \E i, j \in 1..Len(order) : i < j /\ order[i] = a /\ order[j] = b

\* C3: when the status queried for a slot is in progress, the run has raised
\* a workflow error, and only slots that come before it in iteration order
\* have been cleaned or submitted.
AbortOnRunning ==
    \A i \in 1..Len(queried) :
        queried[i].status \in RunningKinds =>
            /\ raised = "WorkFlowError"
            /\ pc = "aborted"
            /\ i = Len(queried)
            /\ \A s \in Range(cleaned) \cup {calls[k].slot : k \in 1..Len(calls)} :
                   Before(s, queried[i].slot)

\* The run aborted on an in-progress slot after it had submitted others.
AbortOnRunningWitness ==
    /\ raised = "WorkFlowError"
    /\ status \in RunningKinds
    /\ Len(calls) > 0
    /\ Len(calls) < Len(IterSlots(config)) - 1

\* C4: in update mode, a slot whose queried status is SUCCESS is neither
\* cleaned nor submitted.
UpdateSkipsSuccess ==
    config.update =>
        \A i \in 1..Len(queried) :
            queried[i].status = "SUCCESS" =>
                /\ queried[i].slot \notin Range(cleaned)
                /\ \A k \in 1..Len(calls) : calls[k].slot # queried[i].slot

\* C5: in a dry run the files on disk are those found when the run started,
\* and every submission is a fake one.
DryRunNoSideEffect ==
    config.dry =>
        /\ disk = disk0
        /\ \A k \in 1..Len(calls) : calls[k].fake

\* A dry run went through a slot that held job files and reached its end.
DryRunNoSideEffectWitness ==
    /\ config.dry
    /\ pc = "done"
    /\ \E s \in Range(cleaned) : disk0[s].files \cap JobExts # {}
    /\ Len(calls) = Len(IterSlots(config))

\* C6: a call of clean_task raises nothing and touches no other slot; in dry
\* mode it changes nothing; otherwise it leaves in the slot no job file, all
\* the other files, and the directory as it was.
CleanTaskEffect ==
    [][(pc = "clean" /\ pc' = "submit") =>
          /\ raised' = raised
          /\ \A s \in DOMAIN disk : s # slot => disk'[s] = disk[s]
          /\ config.dry => disk' = disk
          /\ ~config.dry =>
                 /\ disk'[slot].files \cap JobExts = {}
                 /\ disk'[slot].files \ JobExts = disk[slot].files \ JobExts
                 /\ disk'[slot].dir = disk[slot].dir]_vars

\* A real run has just cleaned a slot that held job files and another file:
\* the other file alone is left.
CleanTaskEffectWitness ==
    /\ ~config.dry
    /\ pc = "submit"
    /\ {"sh", "json", "other"} \subseteq disk0[slot].files
    /\ disk[slot].files = {"other"}

\* ------------------------------- the pure functions, applied to their inputs

\* The variables of run(), when unused.
RunIdle ==
    /\ config = <<>> /\ disk0 = <<>> /\ disk = <<>>
    /\ RunLocals

\* Where a token of a task tree can stand: <<stage, sequence>>.
Places == << <<1, 1>>, <<1, 2>>, <<2, 1>>, <<3, 1>> >>

TreeNames == {"A", "B", "G"}

TreeGroups == { <<>>, [G |-> <<"A", "B">>], [G |-> <<"B", "B">>] }

\* The tokens that stand at place p, in order (place is non-decreasing).
LineAt(tokens, place, p) ==
    LET idx == {i \in 1..Len(tokens) : place[i] = p}
    IN  IF idx = {} THEN <<>>
        ELSE SubSeq(tokens, CHOOSE i \in idx : \A j \in idx : i <= j,
                            CHOOSE i \in idx : \A j \in idx : j <= i)

\* The stages section of a configuration: every stage with its lines of tokens.
MakeStages(tokens, place) ==
    [si \in 1..Len(StageNames) |->
        <<StageNames[si],
          Flatten([p \in 1..Len(Places) |->
              IF Places[p][1] = si /\ LineAt(tokens, place, p) # <<>>
              THEN <<LineAt(tokens, place, p)>> ELSE <<>>])>>]

TreeInputs ==
    UNION { { [fn |-> "to_dict", stages |-> MakeStages(tokens, place), groups |-> g] :
                tokens \in [1..n -> TreeNames],
                place \in {q \in [1..n -> 1..Len(Places)] :
                              \A i \in 1..(n - 1) : q[i] <= q[i + 1]},
                g \in TreeGroups }
            : n \in 0..MaxTokens }

Optional(S) == {None} \cup {Some(v) : v \in S}

CycleInputs ==
    [fn : {"gen_cycles"}, begin_date : 0..1, end_date : Optional(0..MaxDate),
     freq : Optional(1..MaxFreq), ncycles : Optional(0..MaxCycles),
     as_intervals : BOOLEAN]

\* The ids of a set as a list of pages, in increasing order.
RECURSIVE IntPages(_)
IntPages(ids) ==
    IF ids = {} THEN <<>>
    ELSE LET m == CHOOSE i \in ids : \A j \in ids : i <= j
         IN  <<PageInt(m)>> \o IntPages(ids \ {m})

SkipLists ==
    {IntPages(ids) : ids \in SUBSET (1..MaxSkip)}
        \cup { <<PageSlice(2, Some(5))>>,
               <<PageInt(1), PageSlice(3, Some(5)), PageInt(8)>>,
               <<PageSlice(7, None)>> }

\* The iterables given with a size: none, one of the right length, one too long.
ItersFor(size) ==
    IF size = None
    THEN { <<>>, [x |-> <<101, 102>>], [x |-> <<101, 102>>, y |-> <<201, 202, 203>>] }
    ELSE { <<>>, [x |-> [i \in 1..Val(size) |-> 100 + i]],
                 [x |-> [i \in 1..(Val(size) + 1) |-> 100 + i]] }

EnsembleInputs ==
    UNION { { [fn |-> "gen_ensemble", size |-> size, skip |-> skip, iters |-> iters] :
                skip \in SkipLists, iters \in ItersFor(size) }
            : size \in Optional(0..MaxMembers) }

\* ------------------------------- woom/job.py: the answer of a status command

\* Largest number of jobs in the answer of a status command.
MaxListed == 2

\* The status codes a scheduler may print; "S" is in no table.
NativeCodes == {"R", "PD", "CD", "CG", "Q", "H", "E", "F", "S"}

\* status_names of the two schedulers.
status_names(manager) ==
    IF manager = "slurm"
    THEN [R |-> "RUNNING", CD |-> "FINISHED", PD |-> "PENDING", CG |-> "COMPLETING"]
    ELSE [R |-> "RUNNING", F |-> "FINISHED", E |-> "EXITING", Q |-> "INQUEUE",
          H |-> "PENDING"]

\* The lines a status command prints for jobs with the given codes: squeue
\* --noheader prints one line per job, qstat five lines of heading before
\* them and nothing without job.  Of a line the job id (with the name of
\* the server for qstat) and the status column are kept.
StatusOutput(manager, codes) ==
    LET jobs == [i \in 1..Len(codes) |->
                    [jobid |-> [num |-> 200 + i,
                                server |-> IF manager = "pbspro" THEN "srv" ELSE ""],
                     code |-> codes[i]]]
        heading == [i \in 1..5 |-> [jobid |-> [num |-> 0, server |-> ""], code |-> "heading"]]
    IN  IF manager = "pbspro" /\ Len(codes) > 0 THEN heading \o jobs ELSE jobs

\* status_names[status] if status in status_names, else JobStatus.UNKOWN.
TranslateStatus(manager, code) ==
    IF code \in DOMAIN status_names(manager) THEN status_names(manager)[code] ELSE "UNKOWN"

\* PbsproJobManager._parse_status_res_: the lines after the fifth, the job id
\* without the name of the server, the status translated.
Pbspro_parse_status_res(lines) ==
    LET body == SubSeq(lines, 6, Len(lines))
    IN  [raised |-> "none",
         out |-> [i \in 1..Len(body) |->
                    [jobid |-> body[i].jobid.num,
                     status |-> TranslateStatus("pbspro", body[i].code)]]]

\* SlurmJobManager._parse_status_res_: its first statement calls
\* super()._parse_status_res_(self, res), one argument more than
\* _Scheduler_._parse_status_res_(self, res) takes.
Slurm_parse_status_res(lines) ==
    [raised |-> "TypeError", out |-> <<>>]

\* self._parse_status_res_(res) of the manager.
parse_status_res(manager, lines) ==
    IF manager = "slurm" THEN Slurm_parse_status_res(lines)
    ELSE Pbspro_parse_status_res(lines)

StatusInputs ==
    [fn : {"parse_status_res"}, manager : {"slurm", "pbspro"},
     codes : UNION {[1..n -> NativeCodes] : n \in 0..MaxListed}]

\* An input is chosen; no function has been called yet.
InitFn ==
    /\ \/ fn_in \in TreeInputs
       \/ fn_in \in CycleInputs
       \/ fn_in \in EnsembleInputs
       \/ fn_in \in StatusInputs
    /\ fn_out = NotCalled
    /\ RunIdle
    /\ JobIdle
    /\ RestIdle

\* TaskTree(stages, groups).to_dict()
CallToDict ==
    /\ fn_in.fn = "to_dict"
    /\ fn_out = NotCalled
    /\ fn_out' = <<to_dict(fn_in.stages, fn_in.groups)>>
    /\ UNCHANGED <<fn_in, runvars, jobvars, restvars>>

\* gen_cycles(begin_date, end_date, freq, ncycles, as_intervals=...)
CallGenCycles ==
    /\ fn_in.fn = "gen_cycles"
    /\ fn_out = NotCalled
    /\ fn_out' = <<gen_cycles(fn_in.begin_date, fn_in.end_date, fn_in.freq,
                              fn_in.ncycles, fn_in.as_intervals)>>
    /\ UNCHANGED <<fn_in, runvars, jobvars, restvars>>

\* gen_ensemble(size, skip=..., **iters)
CallGenEnsemble ==
    /\ fn_in.fn = "gen_ensemble"
    /\ fn_out = NotCalled
    /\ fn_out' = <<gen_ensemble(fn_in.size, fn_in.skip, fn_in.iters)>>
    /\ UNCHANGED <<fn_in, runvars, jobvars, restvars>>

\* manager._parse_status_res_(res) on the answer of the status command.
CallParseStatus ==
    /\ fn_in.fn = "parse_status_res"
    /\ fn_out = NotCalled
    /\ fn_out' = <<parse_status_res(fn_in.manager, StatusOutput(fn_in.manager, fn_in.codes))>>
    /\ UNCHANGED <<fn_in, runvars, jobvars, restvars>>

NextFn ==
    \/ CallToDict
    \/ CallGenCycles
    \/ CallGenEnsemble
    \/ CallParseStatus

SpecFn == InitFn /\ [][NextFn]_vars

\* ------------------------------------------- properties of the pure functions

ToDictCalled == fn_in.fn = "to_dict" /\ fn_out # NotCalled
GenCyclesCalled == fn_in.fn = "gen_cycles" /\ fn_out # NotCalled
GenEnsembleCalled == fn_in.fn = "gen_ensemble" /\ fn_out # NotCalled

\* The task names of a declaration once the groups are expanded, over all
\* the stages and sequences.
ExpandedNames(decl, table) ==
    Flatten([i \in 1..Len(decl) |->
        Flatten([q \in 1..Len(decl[i][2]) |->
            Flatten([t \in 1..Len(decl[i][2][q]) |->
                LET token == decl[i][2][q][t]
                IN  IF token \in DOMAIN table THEN table[token] ELSE <<token>>])])])

\* C7: building the task tree raises a task error if and only if a task name
\* occurs more than once in the expanded declaration.
TaskTreeUnicity ==
    ToDictCalled =>
        ((fn_out[1].raised = "TaskError")
            <=> ~NoRepeat(ExpandedNames(fn_in.stages, fn_in.groups)))

\* The tree was refused for a task that stands bare in one stage and inside a
\* group in another, names that are distinct as tokens.
TaskTreeUnicityWitness ==
    /\ ToDictCalled
    /\ fn_out[1].raised = "TaskError"
    /\ fn_in.groups = [G |-> <<"A", "B">>]
    /\ fn_in.stages[1][2] = << <<"A">> >>
    /\ fn_in.stages[2][2] = << <<"B", "G">> >>

\* The names the status kinds are to have by sign.
NegativeKinds == {"FAILED", "ERROR", "SUCCESS", "KILLED", "NOTSUBMITTED", "FINISHED"}

\* C8: the value of the status kind that run() got for a slot has the sign of
\* its predicate, negative for FAILED, ERROR, SUCCESS, KILLED, NOTSUBMITTED and
\* FINISHED, zero for UNKNOWN only, positive for the in-progress kinds.
JobStatusSigns ==
    status \in DOMAIN JobStatus =>
        /\ (JobStatus[status] > 0) <=> is_running(status)
        /\ (JobStatus[status] < 0) <=> is_not_running(status)
        /\ (JobStatus[status] = 0) <=> is_unknown(status)
        /\ status \in NegativeKinds => JobStatus[status] < 0
        /\ status \in RunningKinds => JobStatus[status] > 0
        /\ (JobStatus[status] = 0) <=> (status = "UNKNOWN")

\* cycles is a chain: each cycle is linked to its neighbours only.
IsChain(cs) ==
    \A i \in 1..Len(cs) :
        /\ cs[i].next = (IF i < Len(cs) THEN i + 1 ELSE 0)
        /\ cs[i].prev = (IF i > 1 THEN i - 1 ELSE 0)

\* C9: whenever gen_cycles returns, the cycles are a doubly-linked chain, the
\* first one alone has is_first and the last one alone has is_last.
CyclesChain ==
    (GenCyclesCalled /\ fn_out[1].raised = "none") =>
        LET cs == fn_out[1].cycles
        IN  /\ Len(cs) >= 1
            /\ IsChain(cs)
            /\ \A i \in 1..Len(cs) : /\ cs[i].is_first <=> (i = 1)
                                     /\ cs[i].is_last <=> (i = Len(cs))

\* The ids of the members of a result.
Ids(ms) == [i \in 1..Len(ms) |-> ms[i].id]

\* C10: when gen_ensemble(n, skip=S) returns, the ids of its members increase
\* strictly and are the ids of 1..n that S does not select, and every member
\* has nmembers = n; gen_ensemble(5) gives 1, 2, 3, 4, 5 and
\* gen_ensemble(10, skip 3, 5, 7) gives 7 members, none of them 3, 5 or 7.
EnsembleIds ==
    (GenEnsembleCalled /\ fn_in.size # None /\ fn_out[1].raised = "none") =>
        LET n == Val(fn_in.size)
            ms == fn_out[1].members
            S == IF Len(fn_in.skip) = 0 THEN {} ELSE pages2ints(fn_in.skip, n)
        IN  /\ \A i \in 1..(Len(ms) - 1) : ms[i].id < ms[i + 1].id
            /\ Range(Ids(ms)) = (1..n) \ S
            /\ \A i \in 1..Len(ms) : ms[i].nmembers = n /\ 1 <= ms[i].id /\ ms[i].id <= n
            /\ (n = 5 /\ fn_in.skip = <<>>) => Ids(ms) = <<1, 2, 3, 4, 5>>
            /\ (n = 10 /\ fn_in.skip = <<PageInt(3), PageInt(5), PageInt(7)>>) =>
                   Len(ms) = 7 /\ Range(Ids(ms)) \cap {3, 5, 7} = {}

\* gen_ensemble(10, skip 3, 5, 7) returned its 7 members.
EnsembleIdsWitness ==
    /\ GenEnsembleCalled
    /\ fn_in.size = Some(10)
    /\ fn_in.skip = <<PageInt(3), PageInt(5), PageInt(7)>>
    /\ fn_out[1].raised = "none"
    /\ Ids(fn_out[1].members) = <<1, 2, 4, 6, 8, 9, 10>>

\* The number of members gen_ensemble is to generate for an input.
AskedMembers(in) ==
    IF in.size # None THEN Val(in.size)
    ELSE IF DOMAIN in.iters = {} THEN 0
         ELSE CHOOSE m \in {Len(in.iters[a]) : a \in DOMAIN in.iters} :
                  \A a \in DOMAIN in.iters : m <= Len(in.iters[a])

\* C11: gen_ensemble raises if and only if some iterable has a length that
\* differs from nmembers, whatever nmembers and the skipped ids; when it
\* returns, the member of id i has the value i of every iterable as property.
EnsembleItersChecked ==
    GenEnsembleCalled =>
        LET n == AskedMembers(fn_in)
            its == fn_in.iters
            ms == fn_out[1].members
        IN  /\ (fn_out[1].raised = "WoomError") <=> (\E a \in DOMAIN its : Len(its[a]) # n)
            /\ fn_out[1].raised = "none" =>
                   \A i \in 1..Len(ms) : \A a \in DOMAIN its :
                       ms[i].props[a] = its[a][ms[i].id]

\* ------------------------------------------- properties of get_task_status

\* C12: the status queried for a slot without submission directory, or without
\* job.json in it, is NOTSUBMITTED whatever the other files, and the query
\* raises nothing: the run goes on to the submission of the slot, the one
\* place left where it can stop.  (A slot is queried before the run touches
\* its files.)
NoRecordNotSubmitted ==
    \A i \in 1..Len(queried) :
        LET d == disk0[queried[i].slot]
        IN  (~d.dir \/ "json" \notin d.files) =>
                /\ queried[i].status = "NOTSUBMITTED"
                /\ (i = Len(queried) /\ raised # "none") =>
                       /\ Len(calls) > 0
                       /\ calls[Len(calls)].slot = queried[i].slot
                       /\ ~calls[Len(calls)].job

\* A slot that holds job.out and job.status but no job.json was queried.
NoRecordNotSubmittedWitness ==
    \E i \in 1..Len(queried) :
        LET d == disk0[queried[i].slot]
        IN  /\ d.dir
            /\ {"out", "status"} \subseteq d.files
            /\ "json" \notin d.files
            /\ queried[i].status = "NOTSUBMITTED"

\* C13: for a slot with job.json and job.status, and no walltime marker in
\* job.out, the status is SUCCESS exactly for the exit code 0 and ERROR
\* exactly for another code, whatever asking the job would report.
ExitCodeStatus ==
    \A i \in 1..Len(queried) :
        LET d == disk0[queried[i].slot]
        IN  (d.dir /\ {"json", "status"} \subseteq d.files /\ ~("out" \in d.files /\ d.marker)) =>
                /\ (queried[i].status = "SUCCESS") <=> (d.code = 0)
                /\ (queried[i].status = "ERROR") <=> (d.code # 0)

\* A slot whose job.status holds a non-zero code was queried while a process
\* with the recorded id was alive: the status is ERROR.
ExitCodeStatusWitness ==
    \E i \in 1..Len(queried) :
        LET d == disk0[queried[i].slot]
        IN  /\ d.dir /\ {"json", "status"} \subseteq d.files
            /\ d.code # 0
            /\ d.probe = "RUNNING"
            /\ queried[i].status = "ERROR"

\* The ids of the upstream jobs in order, one separator between two of them.
JoinedIds(depend, sep) ==
    [i \in 1..(2 * Len(depend) - 1) |->
        IF i % 2 = 1 THEN JobId(depend[(i + 1) \div 2]) ELSE Lit(sep)]

\* The words of the dependency flag of each scheduler.
AfterOk(scheduler, depend) ==
    IF scheduler = "slurm"
    THEN << <<Lit("--dependency=afterok:")>> \o JoinedIds(depend, ",") >>
    ELSE << <<Lit("-W")>>, <<Lit("depend=afterok:")>> \o JoinedIds(depend, ":") >>

\* C17: the command line of a submission to a scheduler holds, between the
\* command and the script, exactly the dependency flag of the scheduler built
\* from the ids of the upstream jobs in order (joined by "," for Slurm, by ":"
\* for PBS Pro), and nothing when there is no upstream job.
DependencyFlag ==
    \A k \in 1..Len(calls) :
        (~calls[k].fake /\ config.scheduler \in {"slurm", "pbspro"}) =>
            SubSeq(calls[k].args, 2, Len(calls[k].args) - 1) =
                IF Len(calls[k].depend) = 0 THEN <<>>
                ELSE AfterOk(config.scheduler, calls[k].depend)

\* C18: once a real submission returned no job, the run has raised a workflow
\* error and stopped: that call is the last one, and no slot was queried or
\* cleaned after its slot.
SubmissionAbortStops ==
    \A k \in 1..Len(calls) :
        (~calls[k].fake /\ ~calls[k].job) =>
            /\ raised = "WorkFlowError"
            /\ pc = "aborted"
            /\ k = Len(calls)
            /\ queried[Len(queried)].slot = calls[k].slot
            /\ cleaned[Len(cleaned)] = calls[k].slot

\* A real submission that is not the first one of the run returned no job,
\* and slots remain after it.
SubmissionAbortStopsWitness ==
    /\ Len(calls) > 1
    /\ ~calls[Len(calls)].fake
    /\ ~calls[Len(calls)].job
    /\ raised = "WorkFlowError"
    /\ Len(queried) < Len(IterSlots(config))

\* The place of a slot in the fixed order: its stage among prolog, cycles and
\* epilog, its cycle, then the sequence, the group and the rank in the group
\* of its task as declared, then its member.
Place(wf, s) ==
    LET si == CHOOSE i \in 1..Len(wf.task_tree) : wf.task_tree[i].name = s[2][1]
        seqs == wf.task_tree[si].sequences
        q == CHOOSE i \in 1..Len(seqs) :
                 \E j \in 1..Len(seqs[i]) : s[1] \in Range(seqs[i][j])
        g == CHOOSE j \in 1..Len(seqs[q]) : s[1] \in Range(seqs[q][j])
        t == CHOOSE k \in 1..Len(seqs[q][g]) : seqs[q][g][k] = s[1]
    IN  <<CHOOSE i \in 1..Len(StageNames) : StageNames[i] = s[2][1],
          s[2][2], q, g, t, s[3]>>

\* The lexicographic order of the places.
\* The states that follow a submission, and those that follow a query: the
\* log of the calls, and the log of the queries, change in no other step.
AfterSubmit == pc \in {"member", "aborted"}
AfterQuery == pc \in {"clean", "member", "aborted"}

PlaceBefore(a, b) ==
    \E i \in 1..Len(a) : a[i] < b[i] /\ \A j \in 1..(i - 1) : a[j] = b[j]

\* C19: the slots are visited and submitted in the fixed order (prolog,
\* cycles, epilog; cycle; sequence; group; task; member), whatever the order
\* in which the stages are declared, and this is the order in which iterating
\* the workflow yields them: a run that ended has visited the first slots of
\* the iteration, all of them if it finished.  (The order of the places is
\* total and the logs only grow: the newest entry of a log against the one
\* before it is enough, and so is the order of the iteration looked at
\* before the first visit.)
RunOrder ==
    LET n == Len(queried)
        c == Len(calls)
    IN  /\ n = 0 =>
               LET its == IterSlots(config)
               IN  \A k \in 1..(Len(its) - 1) :
                       PlaceBefore(Place(config, its[k]), Place(config, its[k + 1]))
        /\ (AfterQuery /\ n > 1) =>
               PlaceBefore(Place(config, queried[n - 1].slot),
                           Place(config, queried[n].slot))
        /\ (AfterSubmit /\ c > 1) =>
               PlaceBefore(Place(config, calls[c - 1].slot),
                           Place(config, calls[c].slot))
        /\ pc \in {"done", "aborted"} =>
               LET its == IterSlots(config)
               IN  /\ n <= Len(its)
                   /\ \A k \in 1..n : queried[k].slot = its[k]
                   /\ pc = "done" => n = Len(its)

\* A run of a workflow whose epilog is declared first is finished, with
\* submissions for two members, for two tasks of a group and for two stages.
RunOrderWitness ==
    /\ config.declared[1] = "epilog"
    /\ pc = "done"
    /\ Len(calls) >= 4
    /\ calls[1].slot[2][1] = "prolog"
    /\ calls[Len(calls)].slot[2][1] = "epilog"

\* ------------------------------------------------- woom/job.py: class Job

\* The id of the process of the job, and another id a scheduler may report.
JobPid == "12345"
OtherId == "7"

\* The id of the process of a job submitted after it.
NextPid == "12346"

\* Job.__init__: the status starts UNKOWN, realqueue and time start None.
Job(manager, name, script, args, queue, jobid, submission_date) ==
    [manager |-> manager, name |-> name, queue |-> queue, jobid |-> jobid,
     script |-> script, args |-> args, status |-> "UNKOWN",
     realqueue |-> None, time |-> None, submission_date |-> submission_date]

\* The "HHhMM" text of a time in seconds, "--h--" for None.
TimeText(t) ==
    IF t = None THEN [set |-> FALSE, hours |-> 0, minutes |-> 0]
    ELSE LET hours == Val(t) \div 3600
         IN  [set |-> TRUE, hours |-> hours,
              minutes |-> (Val(t) - hours * 3600) \div 60]

\* Job.to_dict: a string is kept unless empty, the manager gives its class
\* name, the status its name, the time its text; any other value is kept.
Job_to_dict(j) ==
    LET strings == {"name", "jobid", "script", "submission_date"}
        keys == {"manager", "status", "time", "args", "queue", "realqueue"}
                    \cup {k \in strings : j[k] # ""}
    IN  [k \in keys |->
            IF k = "time" THEN Some(TimeText(j.time))
            ELSE IF k \in {"queue", "realqueue"} THEN j[k]
            ELSE Some(j[k])]

\* Job.dump: the record written beside the script.
dump(j) == Some(Job_to_dict(j))

\* Job.load: a new Job from six keys of the record, appended to the jobs of
\* the manager; nothing is returned.  A missing key raises KeyError.
load(manager, content) ==
    IF {"name", "script", "args", "jobid", "queue", "submission_date"}
           \subseteq DOMAIN content
    THEN [raised |-> "none", returned |-> None,
          jobs |-> << Job(manager, Val(content["name"]), Val(content["script"]),
                          Val(content["args"]), content["queue"],
                          Val(content["jobid"]), Val(content["submission_date"])) >>]
    ELSE [raised |-> "KeyError", returned |-> None, jobs |-> <<>>]

\* Job.get_status: RUNNING when the process of the job exists, else UNKOWN.
get_status(j, processes) ==
    [j EXCEPT !.status = IF j.jobid \in processes THEN "RUNNING" ELSE "UNKOWN"]

\* _Scheduler_.update_status, that the get_status of a manager with scheduler
\* calls: it starts with self.get_jobids(...), a method no class defines, and
\* raises AttributeError before the status command is run.
Scheduler_update_status(j) == [raised |-> "AttributeError", job |-> j, dumped |-> FALSE]

\* ScheduledJob.get_status: self.manager.get_status(self).
ScheduledJob_get_status(j) == Scheduler_update_status(j)

\* A variant where the status just read is written to the record.
Job_get_status_dumps(j, processes) ==
    IF j.manager = "BackgroundJobManager"
    THEN [raised |-> "none", job |-> get_status(j, processes), dumped |-> TRUE]
    ELSE ScheduledJob_get_status(j)

\* job.get_status() on a job of the class of its manager: Job for the
\* background manager, ScheduledJob for the others.  Nothing is dumped.
Job_get_status(j, processes) ==
    IF j.manager = "BackgroundJobManager"
    THEN [raised |-> "none", job |-> get_status(j, processes), dumped |-> FALSE]
    ELSE ScheduledJob_get_status(j)

\* The arguments of update_status: None, a JobStatus, a status name, or the
\* dictionary a manager builds from the answer of the scheduler.
StatusArgs ==
    [kind : {"None"}, status : {"UNKOWN"}, jobid : {JobPid}, queue : {None}, time : {None}]
    \cup [kind : {"JobStatus", "str"}, status : DOMAIN JobStatus, jobid : {JobPid},
          queue : {None}, time : {None}]
    \cup [kind : {"dict"}, status : DOMAIN JobStatus, jobid : {JobPid, OtherId},
          queue : {Some("batch")}, time : {None, Some(3660)}]

\* Job.update_status: the status asked to the process when none is given;
\* a JobStatus is stored, a dictionary gives jobid, realqueue, status and
\* time, and the job is dumped.  A string has no key "jobid": TypeError.
update_status(j, arg, processes) ==
    IF arg.kind = "str" THEN [raised |-> "TypeError", job |-> j, dumped |-> FALSE]
    ELSE IF arg.kind = "None" /\ Job_get_status(j, processes).raised # "none"
         THEN Job_get_status(j, processes)
    ELSE [raised |-> "none", dumped |-> TRUE,
          job |-> IF arg.kind = "None" THEN Job_get_status(j, processes).job
                  ELSE IF arg.kind = "JobStatus" THEN [j EXCEPT !.status = arg.status]
                  ELSE [j EXCEPT !.jobid = arg.jobid, !.realqueue = arg.queue,
                                 !.status = arg.status, !.time = arg.time]]

\* The managers of jobs.
Managers == {"BackgroundJobManager", "SlurmJobManager", "PbsproJobManager"}

\* The jobs a manager submits: the name and the queue come from the options.
JobInputs ==
    [manager : Managers, name : {"task"}, queue : {None, Some("batch")}]

\* A background job has just been submitted: its process exists and the job
\* was dumped.
InitJob ==
    /\ \E in \in JobInputs :
          job = Some(Job(in.manager, in.name, "job.sh",
                         <<"bash", "job.sh">>, in.queue, JobPid, "2025-01-01"))
    /\ record = dump(Val(job))
    /\ alive = {JobPid}
    /\ exit_code = None
    /\ loaded = None
    /\ job_op = None
    /\ dependent = None
    /\ RunIdle
    /\ FnIdle
    /\ RestIdle

\* The process of the job ends, with an exit code.
ProcessExit ==
    /\ JobPid \in alive
    /\ loaded = None
    /\ \E code \in {0, 1} : exit_code' = Some(code)
    /\ alive' = alive \ {JobPid}
    /\ UNCHANGED <<job, record, loaded, job_op, dependent, runvars, fnvars, restvars>>

\* job.get_status()
JobGetStatus ==
    /\ loaded = None
    /\ LET r == Job_get_status(Val(job), alive)
       IN  /\ job' = Some(r.job)
           /\ record' = IF r.dumped THEN dump(r.job) ELSE record
    /\ job_op' = Some([op |-> "get_status", before |-> Val(job).status,
                       observed |-> Val(job').status])
    /\ UNCHANGED <<alive, exit_code, loaded, dependent, runvars, fnvars, restvars>>

\* job.update_status(arg)
JobUpdateStatus ==
    /\ loaded = None
    /\ \E arg \in StatusArgs :
          /\ arg.kind = "dict" => Val(job).manager # "BackgroundJobManager"
          /\ LET r == update_status(Val(job), arg, alive)
             IN  /\ job' = Some(r.job)
                 /\ record' = IF r.dumped THEN dump(r.job) ELSE record
                 /\ job_op' = Some([op |-> "update_status", before |-> Val(job).status,
                                    observed |-> IF arg.kind = "None" THEN r.job.status
                                                 ELSE arg.status])
    /\ UNCHANGED <<alive, exit_code, loaded, dependent, runvars, fnvars, restvars>>

\* Job.wait in BackgroundJobManager.submit: p.wait() gives the exit code of
\* the process, which nothing reads; the submission goes on.
Waited(code) == TRUE

\* A variant of Job.wait that returns while the process still exists.
Job_wait_returns_at_once(j, processes) == processes

\* Job.wait: when the process of the job exists, p.wait() returns once it has
\* ended; the processes that exist afterwards.
Job_wait(j, processes) == processes \ {j.jobid}

\* manager.submit(script, opts, depend=[job]): the manager waits for the
\* process of the dependency, if it still exists, then starts the script and
\* creates its Job.
SubmitDependent ==
    /\ loaded = None
    /\ dependent = None
    /\ Val(job).manager = "BackgroundJobManager"
    /\ \E code \in {0, 1} :
          LET after == Job_wait(Val(job), alive)
              ended == IF after # alive THEN Some(code) ELSE exit_code
          IN  /\ exit_code' = ended
              /\ dependent' =
                    IF ended = None \/ Waited(Val(ended))
                    THEN Some(Job("BackgroundJobManager", "next", "next.sh",
                                  <<"bash", "next.sh">>, None, NextPid, "2025-01-01"))
                    ELSE None
              /\ alive' = IF dependent' # None THEN after \cup {NextPid} ELSE after
    /\ UNCHANGED <<job, record, loaded, job_op, runvars, fnvars, restvars>>

\* Job.kill: the process of the job, if it exists, is killed; the status of
\* the job is not touched.
Job_kill(j, processes) == processes \ {j.jobid}

\* update_status(): the status is asked to the process and dumped.
ArgNone == [kind |-> "None", status |-> "UNKOWN", jobid |-> JobPid, queue |-> None, time |-> None]

\* BackgroundJobManager.delete: check_status() updates and shows the jobs,
\* then, on the answer "yes", every job is killed.
BackgroundJobManager_delete(jobs, answer, processes) ==
    LET shown == [i \in 1..Len(jobs) |-> update_status(jobs[i], ArgNone, processes)]
        RECURSIVE KillAll(_, _)
        KillAll(i, left) == IF i > Len(jobs) THEN left
                            ELSE KillAll(i + 1, Job_kill(shown[i].job, left))
    IN  [raised |-> "none", jobs |-> [i \in 1..Len(jobs) |-> shown[i].job],
         dumped |-> TRUE, completed |-> answer = "yes",
         processes |-> IF answer = "yes" THEN KillAll(1, processes) ELSE processes]

\* _Scheduler_.delete: it starts with self.update_status(), which raises
\* before the question is asked and the delete command is run.
Scheduler_delete(jobs, answer, processes) ==
    [raised |-> Scheduler_update_status(jobs[1]).raised, jobs |-> jobs,
     dumped |-> FALSE, completed |-> FALSE, processes |-> processes]

\* manager.delete() on the manager of the job, that also knows the job
\* submitted after it.
ManagerDelete ==
    /\ loaded = None
    /\ \E answer \in {"yes", "no"} :
          LET jobs == <<Val(job)>> \o dependent
              r == IF Val(job).manager = "BackgroundJobManager"
                   THEN BackgroundJobManager_delete(jobs, answer, alive)
                   ELSE Scheduler_delete(jobs, answer, alive)
          IN  /\ job' = Some(r.jobs[1])
              /\ dependent' = IF dependent = None THEN None ELSE Some(r.jobs[2])
              /\ record' = IF r.dumped THEN dump(r.jobs[1]) ELSE record
              /\ alive' = r.processes
              /\ job_op' = Some([op |-> IF r.completed THEN "delete" ELSE "delete stopped",
                                 before |-> Val(job).status,
                                 observed |-> r.jobs[1].status])
    /\ UNCHANGED <<exit_code, loaded, runvars, fnvars, restvars>>

\* Another invocation loads the record into a manager of the same class.
JobLoad ==
    /\ loaded = None
    /\ loaded' = Some(load(Val(job).manager, Val(record)))
    /\ UNCHANGED <<job, record, alive, exit_code, job_op, dependent, runvars, fnvars, restvars>>

NextJob ==
    \/ ProcessExit
    \/ JobGetStatus
    \/ JobUpdateStatus
    \/ SubmitDependent
    \/ ManagerDelete
    \/ JobLoad

SpecJob == InitJob /\ [][NextJob]_vars

\* C14: when the last operation on the job met a known status and observed
\* UNKOWN, the job and its record still hold the status known before.
StatusGuard ==
    job_op # None =>
        LET o == Val(job_op)
        IN  (o.before # "UNKOWN" /\ o.observed = "UNKOWN") =>
                /\ Val(job).status = o.before
                /\ Val(record)["status"] = Some(o.before)

\* C15: once an operation on the status of the job has returned, the status
\* in the record is the status of the job in memory.
StatusPersisted ==
    job_op # None => Val(record)["status"] = Some(Val(job).status)

\* C16: the job submitted with a dependency exists only if the process of
\* the dependency did not end with a non-zero exit code.
DependencyFailureAborts ==
    (exit_code # None /\ dependent # None) => Val(exit_code) = 0

\* C20: the job loaded from the record of a job that has just been persisted
\* has the name, script, args, jobid, queue, submission date and status of
\* that job.
RecordRoundTrip ==
    (loaded # None /\ record = dump(Val(job))) =>
        /\ Val(loaded).raised = "none"
        /\ Len(Val(loaded).jobs) = 1
        /\ \A k \in {"name", "script", "args", "jobid", "queue",
                     "submission_date", "status"} :
               Val(loaded).jobs[1][k] = Val(job)[k]

\* ------------------------------------- the dependency rules of run()

\* The sequences of the stage of a slot.
SequencesOf(s) ==
    config.task_tree[CHOOSE i \in 1..Len(config.task_tree) :
                         config.task_tree[i].name = s[2][1]].sequences

\* The last task of each group of a sequence.
LastTasks(sequence) == {sequence[g][Len(sequence[g])] : g \in 1..Len(sequence)}

\* The jobs submitted so far for the given tasks in the pass of the given
\* slot (its stage and cycle).
JobsInPass(tasks, s) ==
    {j \in 1..Len(calls) : calls[j].slot[1] \in tasks /\ calls[j].slot[2] = s[2]}

\* C21: while the first task of a group is handled, its dependencies are
\* those carried in from the previous sequence; the submission of a first
\* task of a group depends on no job of its own sequence in the same pass
\* (so on no sibling group), and, after the first sequence, on exactly the
\* jobs of the last tasks of the groups of the previous sequence.
FirstTaskDepend ==
    /\ (pc \in {"member", "status", "clean", "submit"} /\ task_i = 1) =>
           task_depend = sequence_depend
    /\ AfterSubmit => \A k \in 1..Len(calls) :
           LET s == calls[k].slot
               at == Place(config, s)
               seqs == SequencesOf(s)
           IN  at[5] = 1 =>
                   /\ \A j \in Range(calls[k].depend) :
                          ~(/\ calls[j].slot[2] = s[2]
                            /\ Place(config, calls[j].slot)[3] = at[3])
                   /\ at[3] > 1 =>
                          Range(calls[k].depend) = JobsInPass(LastTasks(seqs[at[3] - 1]), s)

\* The second of two sibling groups was submitted after the first, and both
\* with the job of the previous stage as only dependency.
FirstTaskDependWitness ==
    \E k, l \in 1..Len(calls) :
        /\ k < l
        /\ calls[k].slot = <<"A", <<"cycles", 1>>, 0>>
        /\ calls[l].slot = <<"B", <<"cycles", 1>>, 0>>
        /\ Len(calls[l].depend) = 1
        /\ calls[l].depend = calls[k].depend
        /\ calls[calls[l].depend[1]].slot[1] = "P"

\* C22: the submission of a task that is not the first of its group depends
\* on exactly the jobs of the task just before it in the group, in the same
\* pass, each once: on no job of another sequence, of another group or of an
\* earlier task of the group.
GroupChain ==
    AfterSubmit => \A k \in 1..Len(calls) :
        LET s == calls[k].slot
            at == Place(config, s)
            seqs == SequencesOf(s)
        IN  at[5] > 1 =>
                /\ Range(calls[k].depend) =
                       JobsInPass({seqs[at[3]][at[4]][at[5] - 1]}, s)
                /\ NoRepeat(calls[k].depend)
                /\ \A j \in Range(calls[k].depend) :
                       LET from == Place(config, calls[j].slot)
                       IN  /\ calls[j].slot[2] = s[2]
                           /\ <<from[3], from[4], from[5]>> = <<at[3], at[4], at[5] - 1>>

\* In a group of three tasks that follows another sequence, the second task
\* was submitted with the jobs of the two members of the first task, and the
\* third with the job of the second alone.
GroupChainWitness ==
    \E k, l \in 1..Len(calls) :
        /\ calls[k].slot[1] = "B"
        /\ calls[l].slot[1] = "E"
        /\ Len(calls[k].depend) = 2
        /\ \A j \in Range(calls[k].depend) : calls[j].slot[1] = "A"
        /\ calls[l].depend = <<k>>
        /\ \E j \in 1..Len(calls) : calls[j].slot[1] = "C" /\ j < k

\* C23: when a sequence is over, the dependencies handed to the next one are
\* exactly the jobs of the last task of each of its groups in this pass, each
\* once.
SequenceHandOver ==
    (pc = "sequence" /\ sequence_i > 1) =>
        /\ Range(sequence_depend) =
               JobsInPass(LastTasks(sequences[sequence_i - 1]), <<"", cycle>>)
        /\ NoRepeat(sequence_depend)

\* A sequence of two sibling groups is over and hands the jobs of both to the
\* next sequence.
SequenceHandOverWitness ==
    /\ pc = "sequence"
    /\ sequence_i = 2
    /\ Len(sequences[1]) = 2
    /\ Len(sequence_depend) = 2
    /\ {calls[j].slot[1] : j \in Range(sequence_depend)} = {"A", "B"}

\* The jobs that end the stage at index si: those of the final tasks of its
\* last cycle, or of all its cycles when they are independent.
StageFinalJobs(si) ==
    LET seqs == config.task_tree[si].sequences
        passes == StageCycles(config, si)
    IN  {j \in 1..Len(calls) :
            /\ calls[j].slot[1] \in FinalTasks(seqs)
            /\ \E c \in 1..Len(passes) :
                   /\ calls[j].slot[2] = passes[c]
                   /\ (config.task_tree[si].name = "cycles" /\ config.cycles_indep)
                          \/ c = Len(passes)}

\* The final jobs of the closest stage before index si that has sequences.
CarriedJobs(si) ==
    LET filled == {i \in 1..(si - 1) : Len(config.task_tree[i].sequences) > 0}
    IN  IF filled = {} THEN {}
        ELSE StageFinalJobs(CHOOSE i \in filled : \A o \in filled : o <= i)

\* C24: the dependencies carried from stage to stage are the final jobs of
\* the closest preceding stage that has sequences, nothing before the first
\* one, and the first tasks of the first sequence of a stage are submitted
\* with exactly these.
StageHandOver ==
    /\ pc \in {"stage", "cycle"} =>
           /\ Range(stage_depend) = CarriedJobs(stage_i)
           /\ NoRepeat(stage_depend)
    /\ stage_i = 1 => stage_depend = <<>>
    /\ AfterSubmit => \A k \in 1..Len(calls) :
           LET s == calls[k].slot
               at == Place(config, s)
               si == CHOOSE i \in 1..Len(config.task_tree) :
                         config.task_tree[i].name = s[2][1]
           IN  (at[3] = 1 /\ at[5] = 1 /\ s[2] = StageCycles(config, si)[1])
                   => Range(calls[k].depend) = CarriedJobs(si)

\* The stage of the cycles has no sequence: the epilog was submitted with the
\* final job of the prolog, and the prolog started with no dependency.
StageHandOverWitness ==
    /\ Len(config.task_tree[2].sequences) = 0
    /\ pc = "done"
    /\ calls[1].depend = <<>>
    /\ \E k \in 1..Len(calls) :
           /\ calls[k].slot[2] = <<"epilog", 0>>
           /\ Len(calls[k].depend) = 1
           /\ calls[calls[k].depend[1]].slot = <<"E", <<"prolog", 0>>, 0>>

\* C25: when the cycles are dependent, what the stage of the cycles hands to
\* the epilog is exactly the final jobs of the last cycle: no job of an
\* earlier cycle is handed over, nor is any a dependency of the first tasks
\* of the epilog.
EpilogAfterLastCycle ==
    (~config.cycles_indep /\ Len(CycleSequences) > 0) =>
        LET last == <<"cycles", Len(config.cycles)>>
        IN  /\ (pc = "stage" /\ stage_i = 3) =>
                   /\ Range(stage_depend) = JobsOf(FinalTasks(CycleSequences), last)
                   /\ \A j \in Range(stage_depend) : calls[j].slot[2] = last
            /\ AfterSubmit => \A k \in 1..Len(calls) :
                   LET s == calls[k].slot
                   IN  (s[2][1] = "epilog" /\ Place(config, s)[3] = 1 /\ Place(config, s)[5] = 1)
                           => /\ calls[k].depend # <<>>
                              /\ \A j \in Range(calls[k].depend) : calls[j].slot[2] = last

\* Two dependent cycles ran and the epilog was submitted with the final job
\* of the second one only.
EpilogAfterLastCycleWitness ==
    /\ ~config.cycles_indep
    /\ Len(config.cycles) = 2
    /\ \E j \in 1..Len(calls) :
           calls[j].slot[2] = <<"cycles", 1>> /\ calls[j].slot[1] \in FinalTasks(CycleSequences)
    /\ \E k \in 1..Len(calls) :
           /\ calls[k].slot[2] = <<"epilog", 0>>
           /\ Len(calls[k].depend) = 1
           /\ calls[calls[k].depend[1]].slot[2] = <<"cycles", 2>>

\* ------------------------------------------------------- the update mode
\* C26: in update mode a slot found SUCCESS hands no job downstream: no
\* submission of the run depends on a job of that slot, while the tasks after
\* it are still submitted.
SkippedHandsNothing ==
    config.update =>
        \A i \in 1..Len(queried) :
            queried[i].status = "SUCCESS" =>
                \A k \in 1..Len(calls) :
                    \A j \in Range(calls[k].depend) : calls[j].slot # queried[i].slot

\* C27: in update mode a slot whose status is neither in progress nor
\* SUCCESS is not skipped: the step that follows its query is the one of a
\* run without update, it is cleaned, and then submitted.
UpdateReruns ==
    config.update =>
        \A i \in 1..Len(queried) :
            LET s == queried[i].slot
                st == queried[i].status
                latest == i = Len(queried)
            IN  (st \notin RunningKinds /\ st # "SUCCESS") =>
                    /\ SlotStep(st, TRUE) = SlotStep(st, FALSE)
                    /\ ~(latest /\ pc = "clean") => s \in Range(cleaned)
                    /\ ~(latest /\ pc \in {"clean", "submit"}) =>
                           \E k \in 1..Len(calls) :
                               /\ calls[k].slot = s
                               /\ k = Len(calls) \/ ~SubmissionAborts(config.dry, calls[k].job)

\* An update run met a slot in error, removed its job files and submitted it
\* again, and went on to the end.
UpdateRerunsWitness ==
    /\ config.update
    /\ ~config.dry
    /\ pc = "done"
    /\ \E i \in 1..Len(queried) :
           /\ queried[i].status = "ERROR"
           /\ queried[i].slot \in Range(cleaned)
           /\ \E k \in 1..Len(calls) : calls[k].slot = queried[i].slot /\ calls[k].job

\* ------------------------------------------------ dry run and real run
\* The slots of the given tasks in one pass, one per member.
TaskSlots(wf, tasks, pass) ==
    UNION {{<<t, pass, m>> : m \in Range(get_task_members(wf, t))} : t \in tasks}

\* The slots that end the stage at index si.
StageFinalSlots(wf, si) ==
    LET seqs == wf.task_tree[si].sequences
        passes == StageCycles(wf, si)
        kept == IF wf.task_tree[si].name = "cycles" /\ wf.cycles_indep
                THEN 1..Len(passes) ELSE {Len(passes)} \ {0}
    IN  UNION {TaskSlots(wf, FinalTasks(seqs), passes[c]) : c \in kept}

\* The slots a slot waits for, from the task tree alone: the task before it
\* in its group, else the last tasks of the sequence before, else the cycle
\* before when the cycles are dependent, else the closest stage before.
DependSlots(wf, s) ==
    LET at == Place(wf, s)
        si == CHOOSE i \in 1..Len(wf.task_tree) : wf.task_tree[i].name = s[2][1]
        seqs == wf.task_tree[si].sequences
        filled == {i \in 1..(si - 1) : Len(wf.task_tree[i].sequences) > 0}
    IN  IF at[5] > 1 THEN TaskSlots(wf, {seqs[at[3]][at[4]][at[5] - 1]}, s[2])
        ELSE IF at[3] > 1 THEN TaskSlots(wf, LastTasks(seqs[at[3] - 1]), s[2])
        ELSE IF s[2][1] = "cycles" /\ ~wf.cycles_indep /\ s[2][2] > 1
             THEN TaskSlots(wf, FinalTasks(seqs), <<"cycles", s[2][2] - 1>>)
        ELSE IF filled = {} THEN {}
        ELSE StageFinalSlots(wf, CHOOSE i \in filled : \A o \in filled : o <= i)

\* C28: whether the run is dry or real, every submission is for a slot whose
\* status, read from what the directory held before the run, is not in
\* progress, and is called with one job for each slot the task tree makes it
\* wait for; the run ends early only on a status in progress or, when real,
\* on a submission that returned no job.
DryAsReal ==
    /\ AfterSubmit => \A k \in 1..Len(calls) :
           LET s == calls[k].slot
               waited == DependSlots(config, s)
           IN  /\ {calls[j].slot : j \in Range(calls[k].depend)} = waited
               /\ Len(calls[k].depend) = Cardinality(waited)
               /\ calls[k].fake = config.dry
               /\ \E i \in 1..Len(queried) :
                      /\ queried[i].slot = s
                      /\ queried[i].status = get_task_status(disk0[s])
                      /\ ~is_running(queried[i].status)
    /\ pc = "aborted" =>
           \/ is_running(queried[Len(queried)].status)
           \/ ~config.dry /\ calls # <<>> /\ ~calls[Len(calls)].job
    /\ pc = "done" =>
           /\ Len(calls) = Len(queried)
           /\ \A k \in 1..Len(calls) : calls[k].job

\* A dry run went to its end past a slot that holds files of an earlier run
\* and submitted a task with the fake jobs of two slots as dependencies.
DryAsRealWitness ==
    /\ config.dry
    /\ pc = "done"
    /\ \E s \in DOMAIN disk0 : disk0[s].dir
    /\ \E k \in 1..Len(calls) :
           /\ calls[k].fake
           /\ Len(calls[k].depend) = 2
           /\ Cardinality({calls[j].slot : j \in Range(calls[k].depend)}) = 2

BackgroundOrder ==
    /\ dependent # None => Val(job).jobid \notin alive
    /\ NextPid \in alive => (dependent # None /\ Val(job).jobid \notin alive)

\* The manager waited for the process of the dependency, which ended, and
\* the process of the dependent job now exists.
BackgroundOrderWitness ==
    /\ dependent # None
    /\ exit_code # None
    /\ alive = {NextPid}

Runners == {1, 2}

InitRace ==
    /\ race_cfg \in [scheduler : {"background", "slurm", "pbspro"}, update : BOOLEAN]
    /\ race_dir \in {NoDir} \cup StaleDirs(race_cfg.scheduler)
    /\ race_pc = [r \in Runners |-> "query"]
    /\ race_status = [r \in Runners |-> "unset"]
    /\ race_json = 0
    /\ race_log = <<>>
    /\ RunIdle
    /\ FnIdle
    /\ JobIdle
    /\ OpsIdle

\* status = self.get_task_status(...) and the tests on it, by one runner.
RaceQuery(r) ==
    /\ race_pc[r] = "query"
    /\ LET st == get_task_status(race_dir)
           step == SlotStep(st, race_cfg.update)
       IN  /\ race_status' = [race_status EXCEPT ![r] = st]
           /\ race_pc' = [race_pc EXCEPT ![r] =
                  CASE step = "raise" -> "aborted"
                    [] step = "continue" -> "done"
                    [] OTHER -> "clean"]
    /\ race_log' = Append(race_log, [who |-> r, step |-> "query"])
    /\ UNCHANGED <<race_cfg, race_dir, race_json, runvars, fnvars, jobvars, opsvars>>

\* self.clean_task(...) by one runner: job.json goes with the other files.
RaceClean(r) ==
    /\ race_pc[r] = "clean"
    /\ race_dir' = clean_task(race_dir, FALSE)
    /\ race_json' = 0
    /\ race_pc' = [race_pc EXCEPT ![r] = "submit"]
    /\ UNCHANGED <<race_cfg, race_status, race_log, runvars, fnvars, jobvars, opsvars>>

\* self.submit_task(...) by one runner: the script is written, the job is
\* started and its record is dumped to job.json.
RaceSubmit(r) ==
    /\ race_pc[r] = "submit"
    /\ race_dir' = submit_task(race_dir, race_cfg.scheduler)
    /\ race_json' = r
    /\ race_pc' = [race_pc EXCEPT ![r] = "done"]
    /\ race_log' = Append(race_log, [who |-> r, step |-> "submit"])
    /\ UNCHANGED <<race_cfg, race_status, runvars, fnvars, jobvars, opsvars>>

NextRace ==
    \E r \in Runners : RaceQuery(r) \/ RaceClean(r) \/ RaceSubmit(r)

SpecRace == InitRace /\ [][NextRace]_vars

\* The positions of the submissions in the log.
RaceSubmits == {i \in 1..Len(race_log) : race_log[i].step = "submit"}

\* C33: nothing but the status check keeps a slot from being submitted
\* twice, and the check is made before the submission, apart from it: the
\* slot is submitted twice exactly in the runs where the second submitter
\* read the status before the first one submitted; both then saw a status
\* that is not in progress, and job.json describes the job of the second,
\* the record of the first being lost while its job runs.  A runner that
\* reads the status after a submission sees the job in progress and stops.
RaceHazard ==
    /\ \A r \in Runners : race_pc[r] = "aborted" <=> is_running(race_status[r])
    /\ \A i, j \in RaceSubmits :
           i < j =>
               /\ race_log[i].who # race_log[j].who
               /\ \E q \in 1..(i - 1) :
                      race_log[q] = [who |-> race_log[j].who, step |-> "query"]
               /\ \A r \in Runners : ~is_running(race_status[r])
               /\ race_json \in {0, race_log[j].who}
               /\ (\A r \in Runners : race_pc[r] = "done") => race_json = race_log[j].who
    /\ \A r \in Runners :
           (\E i \in RaceSubmits, q \in 1..Len(race_log) :
                i < q /\ race_log[q] = [who |-> r, step |-> "query"])
               => race_pc[r] = "aborted"

\* Both runners found the slot not running, both submitted it, and job.json
\* holds the record of the second job only.
RaceHazardWitness ==
    /\ Cardinality(RaceSubmits) = 2
    /\ \A r \in Runners : race_pc[r] = "done" /\ ~is_running(race_status[r])
    /\ race_json = race_log[Len(race_log)].who

\* ------------------------- woom/workflow.py: the status and kill commands

\* Largest number of slots that hold files of a job when a command starts.
MaxRecords == 2

\* What the jobs of a workflow may have left in a submission directory: the
\* directories of StaleDirs, for the schedulers the directory of a job that
\* runs, and each of them with the other exit code in job.status.
RecordedDirs(scheduler) ==
    LET old == StaleDirs(scheduler) \cup
               (IF scheduler = "background" THEN {}
                ELSE { [dir |-> TRUE, files |-> {"sh", "json"},
                        marker |-> FALSE, code |-> 0, probe |-> "RUNNING"] })
    IN  old \cup { [d EXCEPT !.code = 1 - d.code] : d \in {x \in old : "status" \in x.files} }

\* job.jobid of the record in the submission directory of a slot.
RecordedJobId(slots, s) ==
    100 + CHOOSE i \in 1..Len(slots) : slots[i] = s

\* The slots whose recorded job runs.
RunningSlots(slots, dirs) ==
    {s \in Range(slots) : "json" \in dirs[s].files /\ dirs[s].probe = "RUNNING"}

InitOps ==
    /\ \E w \in Workflows :
           ops_wf = [scheduler |-> w.scheduler,
                     slots |-> IterSlots(Workflow(w, 1, FALSE, FALSE, FALSE))]
    /\ \E rec \in {S \in SUBSET Range(ops_wf.slots) : Cardinality(S) <= MaxRecords} :
           \E old \in [rec -> RecordedDirs(ops_wf.scheduler)] :
               ops_disk = [s \in Range(ops_wf.slots) |-> IF s \in rec THEN old[s] ELSE NoDir]
    /\ ops_pids = {RecordedJobId(ops_wf.slots, s) : s \in RunningSlots(ops_wf.slots, ops_disk)}
    /\ member_jobid = [k \in StatusKinds |-> None]
    /\ held = None
    /\ returned = None
    /\ kill_op = None
    /\ RunIdle
    /\ FnIdle
    /\ JobIdle
    /\ RaceIdle

\* Workflow.get_task_status with what it does besides returning the kind:
\* FAILED, ERROR and SUCCESS are read from the files and get status.jobid =
\* job.jobid; with a record and none of these files the job is asked.
Workflow_get_task_status(d, answer) ==
    LET kind == get_task_status([d EXCEPT !.probe = answer])
        recorded == d.dir /\ "json" \in d.files
        fromfiles == recorded /\ kind \in {"FAILED", "ERROR", "SUCCESS"}
    IN  [kind |-> kind, paired |-> fromfiles, probed |-> recorded /\ ~fromfiles]

\* status = self.get_task_status(task_name, cycle, member) on one slot.  The
\* status is a member of the JobStatus enumeration, and status.jobid is an
\* attribute of that member.
GetTaskStatus(s) ==
    /\ kill_op = None
    /\ LET d == ops_disk[s]
           id == RecordedJobId(ops_wf.slots, s)
           answer == IF ops_wf.scheduler # "background" THEN d.probe
                     ELSE IF id \in ops_pids THEN "RUNNING" ELSE "UNKOWN"
           r == Workflow_get_task_status(d, answer)
           value == [slot |-> s, kind |-> r.kind, probed |-> r.probed,
                     jobid |-> IF r.paired THEN Some(id) ELSE None]
       IN  /\ member_jobid' = IF r.paired
                               THEN [member_jobid EXCEPT ![r.kind] = Some(id)]
                               ELSE member_jobid
           /\ returned' = Some(value)
           /\ held' = IF held = None /\ r.paired THEN Some(value) ELSE held
    /\ UNCHANGED <<ops_wf, ops_disk, ops_pids, kill_op, runvars, fnvars, jobvars, racevars>>

\* The filters of kill(): the slots the loop does not skip before it looks
\* for job.json.  A task name, a cycle or a member that is None filters
\* nothing.
KillSelects(args, s) ==
    /\ args.task_name # None => s[1] = Val(args.task_name)
    /\ args.cycle # None => s[2] = Val(args.cycle)
    /\ args.member # None => s[3] = Val(args.member)

\* job.is_running() of the job loaded from the record: Job asks psutil for
\* the process, ScheduledJob asks get_status().
Job_is_running(scheduler, id, processes) ==
    IF scheduler = "background"
    THEN [raised |-> "none", value |-> id \in processes]
    ELSE [raised |-> ScheduledJob_get_status([jobid |-> id]).raised, value |-> FALSE]

\* Workflow.kill from the slot at position i on: a slot is skipped when a
\* filter excludes it, when it has no job.json, or when job ids are given
\* and the recorded one is not among them; else the job is killed if it is
\* running.  No file is written.
RECURSIVE Workflow_kill(_, _, _, _, _, _, _)
Workflow_kill(scheduler, slots, dirs, args, i, processes, killed) ==
    IF i > Len(slots)
    THEN [raised |-> "none", processes |-> processes, killed |-> killed]
    ELSE LET s == slots[i]
             id == RecordedJobId(slots, s)
             running == Job_is_running(scheduler, id, processes)
         IN  IF \/ ~KillSelects(args, s)
                \/ "json" \notin dirs[s].files
                \/ (args.jobid # {} /\ id \notin args.jobid)
             THEN Workflow_kill(scheduler, slots, dirs, args, i + 1, processes, killed)
             ELSE IF running.raised # "none"
             THEN [raised |-> running.raised, processes |-> processes, killed |-> killed]
             ELSE IF running.value
             THEN Workflow_kill(scheduler, slots, dirs, args, i + 1,
                                Job_kill([jobid |-> id], processes), killed \cup {id})
             ELSE Workflow_kill(scheduler, slots, dirs, args, i + 1, processes, killed)

\* self.kill(jobid, task_name, cycle, member): each filter is left out or
\* taken from one slot of the workflow, the first one or one that has a
\* submission directory.
KillCommand ==
    /\ kill_op = None
    /\ returned = None
    /\ \E x \in {ops_wf.slots[1]} \cup {s \in Range(ops_wf.slots) : ops_disk[s].dir},
          use \in SUBSET {"jobid", "task_name", "cycle", "member"} :
           LET slots == ops_wf.slots
               args == [jobid |-> IF "jobid" \in use THEN {RecordedJobId(slots, x)} ELSE {},
                        task_name |-> IF "task_name" \in use THEN Some(x[1]) ELSE None,
                        cycle |-> IF "cycle" \in use THEN Some(x[2]) ELSE None,
                        member |-> IF "member" \in use /\ x[3] # 0 THEN Some(x[3]) ELSE None]
               r == Workflow_kill(ops_wf.scheduler, slots, ops_disk, args, 1, ops_pids, {})
           IN  /\ ops_pids' = r.processes
               /\ kill_op' = Some([args |-> args, raised |-> r.raised,
                                    killed |-> r.killed, before |-> ops_pids])
    /\ UNCHANGED <<ops_wf, ops_disk, member_jobid, held, returned,
                   runvars, fnvars, jobvars, racevars>>

NextOps ==
    \/ \E s \in Range(ops_wf.slots) : GetTaskStatus(s)
    \/ KillCommand

SpecOps == InitOps /\ [][NextOps]_vars

\* C34: a status value stays paired with the job id it was observed for:
\* the job id carried by the value that an earlier get_task_status returned
\* for a slot is still the job id of that slot after later queries on other
\* slots.
StatusKeepsJobId ==
    held # None => member_jobid[Val(held).kind] = Val(held).jobid

\* C37: a slot with a job record whose job.out holds the walltime marker is
\* FAILED, whether job.status exists or not and whatever code it holds, and
\* the job is not asked for its status.
MarkerFirst ==
    returned # None =>
        LET d == ops_disk[Val(returned).slot]
        IN  ("json" \in d.files /\ "out" \in d.files /\ d.marker) =>
                (Val(returned).kind = "FAILED" /\ ~Val(returned).probed)

\* The status of a slot with the marker and a job.status of code 1 was asked.
MarkerFirstWitness ==
    /\ returned # None
    /\ LET d == ops_disk[Val(returned).slot]
       IN  /\ {"json", "out", "status"} \subseteq d.files
           /\ d.marker
           /\ d.code = 1
    /\ Val(returned).kind = "FAILED"

\* The ids of the jobs kill() is to kill: the recorded jobs of the slots its
\* filters select that were running when it was called.
KillTargets ==
    LET k == Val(kill_op)
    IN  {RecordedJobId(ops_wf.slots, s) :
            s \in {x \in Range(ops_wf.slots) :
                      /\ KillSelects(k.args, x)
                      /\ "json" \in ops_disk[x].files
                      /\ k.args.jobid # {} => RecordedJobId(ops_wf.slots, x) \in k.args.jobid
                      /\ RecordedJobId(ops_wf.slots, x) \in k.before}}

\* C40: kill() kills exactly the running recorded jobs of the slots that its
\* filters select, the other jobs keep running, and it does not raise when
\* no selected slot has a record.
KillExact ==
    kill_op # None =>
        /\ Val(kill_op).killed = KillTargets
        /\ ops_pids = Val(kill_op).before \ KillTargets
        /\ (\A s \in Range(ops_wf.slots) :
                KillSelects(Val(kill_op).args, s) => "json" \notin ops_disk[s].files)
               => Val(kill_op).raised = "none"

\* C35: parsing the answer of a status command gives one record per listed
\* job, in order, whose status is the translation of its code by the table
\* of the scheduler (Slurm: R, PD, CD, CG; PBS Pro: R, Q, H, E, F), and the
\* unknown status for a code that the table does not hold.
ParseTranslates ==
    (fn_in.fn = "parse_status_res" /\ fn_out # NotCalled) =>
        LET table == IF fn_in.manager = "slurm"
                     THEN [R |-> "RUNNING", PD |-> "PENDING", CD |-> "FINISHED",
                           CG |-> "COMPLETING"]
                     ELSE [R |-> "RUNNING", Q |-> "INQUEUE", H |-> "PENDING",
                           E |-> "EXITING", F |-> "FINISHED"]
            res == Val(fn_out)
        IN  /\ res.raised = "none"
            /\ Len(res.out) = Len(fn_in.codes)
            /\ \A i \in 1..Len(fn_in.codes) :
                   /\ res.out[i].jobid = 200 + i
                   /\ res.out[i].status = IF fn_in.codes[i] \in DOMAIN table
                                          THEN table[fn_in.codes[i]] ELSE "UNKOWN"

\* The members that the configuration gives to a task: the ids of the
\* ensemble for an ensemble task, 0 (no member) for another.
DeclaredMembers(t) ==
    IF t \in config.ensemble_tasks /\ Len(config.members) > 0
    THEN {config.members[i].id : i \in 1..Len(config.members)}
    ELSE {0}

\* C36: a task is submitted once per member of the ensemble if it is an
\* ensemble task and once without member otherwise; the jobs of the members
\* of a task are submitted with the same dependencies; and a submission of
\* the next task of the group depends on one job of each member of the task
\* before it.
MemberJobs ==
    /\ AfterSubmit => \A k \in 1..Len(calls) :
           LET s == calls[k].slot
               at == Place(config, s)
               seqs == SequencesOf(s)
           IN  /\ s[3] \in DeclaredMembers(s[1])
               /\ \A l \in 1..Len(calls) :
                      (calls[l].slot[1] = s[1] /\ calls[l].slot[2] = s[2]) =>
                          /\ calls[l].depend = calls[k].depend
                          /\ calls[l].slot[3] = s[3] => l = k
               /\ at[5] > 1 =>
                      /\ \A j \in Range(calls[k].depend) :
                             calls[j].slot[1] = seqs[at[3]][at[4]][at[5] - 1]
                      /\ {calls[j].slot[3] : j \in Range(calls[k].depend)} =
                             DeclaredMembers(seqs[at[3]][at[4]][at[5] - 1])
    /\ pc = "done" =>
           \A k \in 1..Len(calls) :
               {calls[l].slot[3] : l \in JobsInPass({calls[k].slot[1]}, calls[k].slot)} =
                   DeclaredMembers(calls[k].slot[1])

\* The two members of an ensemble task were submitted with the same
\* dependency, the next task of the group with the jobs of both, and the
\* run ended.
MemberJobsWitness ==
    /\ pc = "done"
    /\ \E k, l, n \in 1..Len(calls) :
           /\ calls[k].slot = <<"A", <<"prolog", 0>>, 1>>
           /\ calls[l].slot = <<"A", <<"prolog", 0>>, 2>>
           /\ calls[k].depend = calls[l].depend
           /\ Len(calls[k].depend) = 1
           /\ calls[n].slot[1] = "B"
           /\ calls[n].slot[3] = 0
           /\ Range(calls[n].depend) = {k, l}

DeclaredSlots ==
    UNION { LET tasks == Range(Flatten(Flatten(config.task_tree[si].sequences)))
                passes == IF config.task_tree[si].name = "cycles"
                          THEN {<<"cycles", i>> : i \in 1..Len(config.cycles)}
                          ELSE {<<config.task_tree[si].name, 0>>}
            IN  UNION { {<<t, pass, m>> : m \in DeclaredMembers(t)} :
                          t \in tasks, pass \in passes }
            : si \in 1..Len(config.task_tree) }

\* C39: in a run no slot is submitted twice, and a run without update mode
\* that came to its end has submitted each slot once, with a job returned:
\* as many submissions as iterating the workflow gives slots, one for each
\* slot that the configuration declares.
SubmitOnce ==
    /\ AfterSubmit => NoRepeat([k \in 1..Len(calls) |-> calls[k].slot])
    /\ (pc = "done" /\ ~config.update) =>
           /\ Len(calls) = Len(IterSlots(config))
           /\ {calls[k].slot : k \in 1..Len(calls)} = DeclaredSlots
           /\ \A k \in 1..Len(calls) : calls[k].job

\* A run without update mode over two cycles ended after it submitted the
\* seven slots of the second workflow.
SubmitOnceWitness ==
    /\ pc = "done"
    /\ ~config.update
    /\ Len(config.cycles) = 2
    /\ Len(calls) = 7
    /\ \E k \in 1..Len(calls) : calls[k].slot = <<"C", <<"cycles", 2>>, 0>>
====
